---------------------------- MODULE Spec2Model ----------------------------
(***************************************************************************)
(* A model of bin/pg_repack.c: the client that reorganizes a table online. *)
(*                                                                         *)
(* The client is one sequential process.  Each SQL statement it sends is   *)
(* one action, named after the statement or the C function that sends it;  *)
(* pc is the client's position in repack_one_database / repack_one_table / *)
(* lock_exclusive / repack_cleanup.  The server is modelled as far as the  *)
(* client depends on it: the transaction of the client's one connection,   *)
(* the statement_timeout setting, the lock on the target, the workspace    *)
(* objects of the target, and the rows of target, log and shadow table     *)
(* under concurrent writer transactions.                                   *)
(***************************************************************************)
EXTENDS Integers, Sequences, FiniteSets, Bags, TLC

(***************************************************************************)
(* Bounds of the model.                                                    *)
(***************************************************************************)
MaxTables == 2
    \* rows the enumeration query may return
MaxAttempts == 3
    \* lock attempts followed per lock_exclusive call
MaxClock == 4
    \* seconds followed after lock_exclusive took its start time
WaitTimeout == 1
    \* the value of the option wait_timeout (default 60), in seconds
MaxIndexes == 2
    \* rows the pg_index query may return
MaxXid == 2
    \* writer transactions followed in a run

MaxDbs == 2
    \* databases the query of repack_all_databases may return

APPLY_COUNT == 1000

\* the primary-key values of the target, and the sessions that write to it
Keys == {1, 2}
Writers == {1, 2}
Blockers == {"b1"}
\* the server's default statement_timeout, in milliseconds
ServerDefaults == {0, 30000}

\* the workspace objects of one target
SetupObjs == {"pktype", "log", "trigger"}
WorkObjs == SetupObjs \cup {"table"}
\* what a killed earlier run can have left behind: nothing, what the setup
\* transaction committed, or that and the shadow table
Residuals == {{}, SetupObjs, WorkObjs}

\* the values of orderby: "NULL" stands for the null pointer (CLUSTER mode),
\* "" is set by --no-order (VACUUM FULL mode), "id" is a user's ORDER BY
Orderbys == {"NULL", "", "id"}

\* a row of repack.tables as repack_one_database reads it: pkid (0 when the
\* column is null) and whether ckey is not null
JobKinds == [pkid : {0, 1}, ckey : BOOLEAN]
GoodJob == [pkid |-> 1, ckey |-> TRUE]

\* "<PROGRAM_NAME> <PROGRAM_VERSION>" of the client, and of an older release
Program == "pg_repack 1.1.8"
Older == "pg_repack 1.1.7"

\* a database as the client finds it: what repack.version() and
\* repack.version_sql() return, and how the version probe and the
\* enumeration query end ("ok", "3F000": the schema repack does not exist,
\* "error": another error)
Installed == [lib |-> Program, sql |-> Program, probe |-> "ok", enum |-> "ok"]
DbKinds ==
    {Installed,
     [Installed EXCEPT !.lib = Older],
     [Installed EXCEPT !.sql = Older],
     [Installed EXCEPT !.lib = Older, !.sql = Older],
     [Installed EXCEPT !.probe = "3F000"],
     [Installed EXCEPT !.probe = "error"],
     [Installed EXCEPT !.enum = "3F000"],
     [Installed EXCEPT !.enum = "error"]}

VARIABLES
    pc,         \* the client's position
    tix,        \* i of the table loop in repack_one_database (1-based)
    ntab,       \* num: rows returned by the enumeration query
    hook,       \* whether repack_cleanup is registered (pgut_atexit_push)
    status,     \* "running", or how the process ended: "ok", "error", "fatal"
    failedAt,   \* the pc of the statement whose failure ended the run
    hookAtFail, \* whether the hook was registered when that failure happened
    stmt,       \* the last statement sent: its kind, the session, in a transaction?
    indexes,    \* indisvalid of the rows of the pg_index query
    ix,         \* i of the index loop (1-based)
    built,      \* the rows whose create_index this loop has executed, in order
    inTx,       \* the connection is inside a transaction
    iso,        \* its isolation level: "rc", "ser" ("none" outside)
    lockHeld,   \* the transaction holds the lock of lock_table on the target
    gucSess,    \* the session's statement_timeout (ms)
    gucTxSet,   \* a SET/RESET of it made in the open transaction
    gucTxLocal, \* a SET LOCAL of it made in the open transaction
    i,          \* lock_exclusive: attempt number
    clock,      \* time(NULL) - start, in seconds
    duration,   \* lock_exclusive: duration as computed in this attempt
    kill,       \* the cancel/terminate query sent in this attempt
    victims,    \* the sessions that query was aimed at
    lockRes,    \* the outcome of the last lock_query
    leRet,      \* which call of lock_exclusive: "setup" or "swap"
    nRollback,  \* ROLLBACKs sent by this call of lock_exclusive
    ws,         \* committed workspace objects of the current target
    wsCur,      \* the workspace as the client's transaction sees it
    ws0,        \* the workspace when the run of the current target began
    swapped,    \* repack_swap: "no", "pending" (uncommitted), "yes"
    serverDefault, \* the server's default statement_timeout (ms)
    canTerminate,  \* PQserverVersion(connection) >= 80400
    blk,        \* other sessions holding a conflicting lock on the target
    resid,      \* what an earlier run left of each target's workspace
    nrows,      \* the rows of repack.tables the enumeration query selects
    orderby,    \* the option --order-by: "NULL" (not given), "" (--no-order) or a list
    table,      \* the option --table is given
    jobs,       \* for each row selected, its pkid and whether its ckey is not null
    tbl,        \* committed rows of the target: a bag of <<key, value>>
    shadow,     \* rows of the shadow table repack.table_<oid>
    log,        \* rows of repack.log_<oid> in id order
    committed,  \* the writer transactions that have committed a write
    snap,       \* the snapshot of the client's serializable transaction
    copiedTx,   \* writer transactions whose change create_table copied
    appliedTx,  \* writer transactions whose log row apply_log applied
    vxid,       \* the transactions SQL_XID_SNAPSHOT returned
    purgedTx,   \* writer transactions whose log row delete_log removed
    lastApply,  \* the rows the last apply_log applied
    wst,        \* each writer: "idle", "begun", "wrote"
    wtx,        \* each writer's transaction id
    wr,         \* each writer's uncommitted write
    nxid,       \* the next transaction id
    conn,       \* connection: "none" (NULL), "ok", or "bad" once it is lost
    banner,     \* repack_cleanup has printed "!!!FATAL ERROR!!!"
    lost,       \* the connection was lost during the run
    alldb,      \* the option --all
    dbs,        \* the databases to visit, in the order of their names
    dbix,       \* i of the database loop (1-based); 1 without --all
    report      \* what each call of repack_one_database returned, in call order

progVars == <<pc, tix, ntab, hook, status, failedAt, hookAtFail, stmt, indexes, ix, built>>
sessVars == <<inTx, iso, lockHeld, gucSess, gucTxSet, gucTxLocal>>
lockVars == <<i, clock, duration, kill, victims, lockRes, leRet, nRollback>>
wsVars == <<ws, wsCur, ws0, swapped>>
envVars == <<serverDefault, canTerminate, blk, resid, nrows, orderby, table, jobs>>
dataVars == <<tbl, shadow, log, committed, snap, copiedTx, appliedTx, vxid, purgedTx, lastApply>>
wrVars == <<wst, wtx, wr, nxid>>
connVars == <<conn, banner, lost>>
dbVars == <<alldb, dbs, dbix, report>>
vars == <<progVars, sessVars, lockVars, wsVars, envVars, connVars, dbVars, dataVars, wrVars>>

(***************************************************************************)
(* Settings (GUC): a value set in a transaction is either absent or set.   *)
(***************************************************************************)
None == [on |-> FALSE, val |-> 0]
Some(v) == [on |-> TRUE, val |-> v]

\* the statement_timeout in force for the next statement
EffectiveTimeout ==
    IF gucTxLocal.on THEN gucTxLocal.val
    ELSE IF gucTxSet.on THEN gucTxSet.val
    ELSE gucSess

Min(a, b) == IF a < b THEN a ELSE b

\* the record of a statement sent with command()/execute() on `connection`
Sent(kind) == [kind |-> kind, sess |-> "primary", tx |-> inTx]


(***************************************************************************)
(* The server: the transaction of the client's connection.                 *)
(***************************************************************************)

\* COMMIT: what the transaction did becomes permanent; outside a
\* transaction it only draws a warning
ServerCommit ==
    /\ inTx' = FALSE
    /\ iso' = "none"
    /\ lockHeld' = FALSE
    /\ gucSess' = IF inTx /\ gucTxSet.on THEN gucTxSet.val ELSE gucSess
    /\ gucTxSet' = None
    /\ gucTxLocal' = None
    /\ ws' = wsCur
    /\ wsCur' = wsCur
    /\ swapped' = IF swapped = "pending" THEN "yes" ELSE swapped

\* ROLLBACK, and the end of a session with a transaction open
ServerRollback ==
    /\ inTx' = FALSE
    /\ iso' = "none"
    /\ lockHeld' = FALSE
    /\ gucSess' = gucSess
    /\ gucTxSet' = None
    /\ gucTxLocal' = None
    /\ ws' = ws
    /\ wsCur' = ws
    /\ swapped' = IF swapped = "pending" THEN "no" ELSE swapped

\* BEGIN ISOLATION LEVEL <level>; inside a transaction it only draws a warning
ServerBegin(level) ==
    /\ inTx' = TRUE
    /\ iso' = IF inTx THEN iso ELSE level
    /\ UNCHANGED <<lockHeld, gucSess, gucTxSet, gucTxLocal>>

\* the sessions other than the client's that hold a lock on the target
\* (pg_locks: locktype = 'relation' AND relation = $1 AND pid <> pg_backend_pid())
OtherHolders ==
    {b \in Blockers : blk[b] # "none"} \cup {w \in Writers : wst[w] = "wrote"}

\* CREATE of a workspace object: it fails when the object exists
CanCreate(obj) == obj \notin wsCur

\* a statement that changes the workspace to w: in a transaction the change
\* is pending, otherwise it is committed with the statement
SetWorkspace(w) ==
    /\ wsCur' = w
    /\ ws' = IF inTx THEN ws ELSE w

(***************************************************************************)
(* Leaving the process.  command() and execute() report a failed statement *)
(* with ereport(ERROR), which ends the process through exit(); the exit    *)
(* handler calls repack_cleanup(false, table) if it is registered and then *)
(* closes the connection, which rolls back an open transaction.            *)
(***************************************************************************)
ExitError ==
    /\ failedAt' = pc
    /\ hookAtFail' = hook
    /\ IF hook
       THEN /\ pc' = "cl_rollback"
            /\ status' = status
            /\ UNCHANGED <<sessVars, ws, wsCur, swapped>>
       ELSE /\ pc' = "exited"
            /\ status' = "error"
            /\ ServerRollback

\* the process leaves lock_exclusive, if it was there: its locals are gone,
\* but for the record of the call
LeaveLock ==
    /\ clock' = 0
    /\ duration' = 0
    /\ kill' = "none"
    /\ victims' = {}
    /\ UNCHANGED <<i, lockRes, leRet, nRollback>>

(***************************************************************************)
(* lock_exclusive (lines 664-732).                                         *)
(***************************************************************************)

\* start = time(NULL), i = 1
LeStart ==
    /\ pc = "le_start"
    /\ pc' = "le_begin"
    /\ i' = 1
    /\ clock' = 0
    /\ duration' = 0
    /\ kill' = "none"
    /\ victims' = {}
    /\ lockRes' = "none"
    /\ nRollback' = 0
    /\ UNCHANGED <<leRet, tix, ntab, hook, status, failedAt, hookAtFail, stmt, indexes, ix, built>>
    /\ UNCHANGED <<sessVars, wsVars, envVars, connVars, dbVars, dataVars, wrVars>>

\* command("BEGIN ISOLATION LEVEL READ COMMITTED")
LeBegin ==
    /\ pc = "le_begin"
    /\ pc' = "le_check"
    /\ stmt' = Sent("begin")
    /\ ServerBegin("rc")
    /\ kill' = "none"
    /\ victims' = {}
    /\ UNCHANGED <<i, clock, duration, lockRes, leRet, nRollback>>
    /\ UNCHANGED <<tix, ntab, hook, status, failedAt, hookAtFail, indexes, ix, built>>
    /\ UNCHANGED <<wsVars, envVars, connVars, dbVars, dataVars, wrVars>>

\* KillQuery had the server version not been looked at
KillQueryAnyVersion(d) ==
    IF d > WaitTimeout
    THEN IF d > WaitTimeout * 2 THEN "terminate" ELSE "cancel"
    ELSE "none"

\* KillQuery had the backends never been terminated
KillQueryCancelOnly(d) ==
    IF d > WaitTimeout THEN "cancel" ELSE "none"

\* which query lines 680-699 choose for a duration d
KillQuery(d) ==
    IF d > WaitTimeout
    THEN IF canTerminate /\ d > WaitTimeout * 2 THEN "terminate" ELSE "cancel"
    ELSE "none"

\* pg_cancel_backend ends the running statement of a session, and with it
\* the transaction: a session idle in its transaction is not affected.
\* pg_terminate_backend ends the session.  The victim gives up its lock
\* when it has handled the signal ("dying").
Signalled(q, b) ==
    IF blk[b] = "none" THEN "none"
    ELSE IF q = "terminate" \/ (q = "cancel" /\ blk[b] = "active") THEN "dying"
    ELSE blk[b]

\* duration = time(NULL) - start, and the cancel or terminate query
LeCheck ==
    /\ pc = "le_check"
    /\ pc' = "le_set_timeout"
    /\ duration' = clock
    /\ kill' = KillQuery(clock)
    /\ IF KillQuery(clock) # "none"
       THEN /\ stmt' = Sent(KillQuery(clock))
            /\ victims' = OtherHolders
            /\ blk' = [b \in Blockers |-> Signalled(KillQuery(clock), b)]
       ELSE UNCHANGED <<stmt, victims, blk>>
    /\ UNCHANGED <<i, clock, lockRes, leRet, nRollback>>
    /\ UNCHANGED <<tix, ntab, hook, status, failedAt, hookAtFail, indexes, ix, built>>
    /\ UNCHANGED <<sessVars, wsVars, serverDefault, canTerminate, resid, nrows, orderby, table, jobs, connVars, dbVars, dataVars, wrVars>>

\* wait_msec = Min(1000, i * 100); SET LOCAL statement_timeout = wait_msec
LeSetTimeout ==
    /\ pc = "le_set_timeout"
    /\ pc' = "le_lock"
    /\ stmt' = Sent("set_local_timeout")
    /\ gucTxLocal' = IF inTx THEN Some(Min(1000, i * 100)) ELSE gucTxLocal
    /\ UNCHANGED <<inTx, iso, lockHeld, gucSess, gucTxSet>>
    /\ UNCHANGED <<tix, ntab, hook, status, failedAt, hookAtFail, indexes, ix, built>>
    /\ UNCHANGED <<lockVars, wsVars, envVars, connVars, dbVars, dataVars, wrVars>>

\* LeLockOk had lock_query not waited for the sessions that hold the target:
\* the client goes on while a writer's transaction is open
LeLockNoWait ==
    /\ pc = "le_lock"
    /\ pc' = "le_reset"
    /\ stmt' = Sent("lock")
    /\ lockRes' = "ok"
    /\ lockHeld' = (OtherHolders = {})
    /\ UNCHANGED <<inTx, iso, gucSess, gucTxSet, gucTxLocal>>
    /\ UNCHANGED <<i, clock, duration, kill, victims, leRet, nRollback>>
    /\ UNCHANGED <<tix, ntab, hook, status, failedAt, hookAtFail, indexes, ix, built>>
    /\ UNCHANGED <<wsVars, envVars, connVars, dbVars, dataVars, wrVars>>

\* lock_query succeeds (PGRES_COMMAND_OK): break
LeLockOk ==
    /\ pc = "le_lock"
    /\ OtherHolders = {}
    /\ pc' = "le_reset"
    /\ stmt' = Sent("lock")
    /\ lockRes' = "ok"
    /\ lockHeld' = TRUE
    /\ UNCHANGED <<inTx, iso, gucSess, gucTxSet, gucTxLocal>>
    /\ UNCHANGED <<i, clock, duration, kill, victims, leRet, nRollback>>
    /\ UNCHANGED <<tix, ntab, hook, status, failedAt, hookAtFail, indexes, ix, built>>
    /\ UNCHANGED <<wsVars, envVars, connVars, dbVars, dataVars, wrVars>>

\* lock_query waits for a conflicting lock until the statement timeout
\* cancels it: SQLSTATE 57014
LeLockCanceled ==
    /\ pc = "le_lock"
    /\ OtherHolders # {}
    /\ pc' = "le_rollback"
    /\ stmt' = Sent("lock")
    /\ lockRes' = "canceled"
    /\ UNCHANGED <<i, clock, duration, kill, victims, leRet, nRollback>>
    /\ UNCHANGED <<tix, ntab, hook, status, failedAt, hookAtFail, indexes, ix, built>>
    /\ UNCHANGED <<sessVars, wsVars, envVars, connVars, dbVars, dataVars, wrVars>>

\* LeLockError had every error of lock_query been retried
LeLockErrorRetried ==
    /\ pc = "le_lock"
    /\ pc' = "le_rollback"
    /\ stmt' = Sent("lock")
    /\ lockRes' = "error"
    /\ UNCHANGED <<i, clock, duration, kill, victims, leRet, nRollback>>
    /\ UNCHANGED <<tix, ntab, hook, status, failedAt, hookAtFail, indexes, ix, built>>
    /\ UNCHANGED <<sessVars, wsVars, envVars, connVars, dbVars, dataVars, wrVars>>

\* lock_query fails with another error: printf, exit(1)
LeLockError ==
    /\ pc = "le_lock"
    /\ stmt' = Sent("lock")
    /\ lockRes' = "error"
    /\ ExitError
    /\ clock' = 0
    /\ duration' = 0
    /\ kill' = "none"
    /\ victims' = {}
    /\ UNCHANGED <<i, leRet, nRollback>>
    /\ UNCHANGED <<tix, ntab, hook, indexes, ix, built, ws0>>
    /\ UNCHANGED <<envVars, connVars, dbVars, dataVars, wrVars>>

\* LeRollback had the canceled attempt's transaction been left open
LeRollbackOmitted ==
    /\ pc = "le_rollback"
    /\ i < MaxAttempts
    /\ pc' = "le_begin"
    /\ i' = i + 1
    /\ nRollback' = nRollback + 1
    /\ UNCHANGED <<clock, duration, kill, victims, lockRes, leRet>>
    /\ UNCHANGED <<tix, ntab, hook, status, failedAt, hookAtFail, stmt, indexes, ix, built>>
    /\ UNCHANGED <<sessVars, wsVars, envVars, connVars, dbVars, dataVars, wrVars>>

\* command("ROLLBACK"); continue (i++)
LeRollback ==
    /\ pc = "le_rollback"
    /\ i < MaxAttempts
    /\ pc' = "le_begin"
    /\ stmt' = Sent("rollback")
    /\ ServerRollback
    /\ i' = i + 1
    /\ nRollback' = nRollback + 1
    /\ UNCHANGED <<clock, duration, kill, victims, lockRes, leRet>>
    /\ UNCHANGED <<tix, ntab, hook, status, failedAt, hookAtFail, indexes, ix, built, ws0>>
    /\ UNCHANGED <<envVars, connVars, dbVars, dataVars, wrVars>>

\* command("ROLLBACK"); continue (i++), once i has reached MaxAttempts: the
\* loop has no limit of its own, the count is followed no further
LeRollbackOn ==
    /\ pc = "le_rollback"
    /\ i >= MaxAttempts
    /\ pc' = "le_begin"
    /\ stmt' = Sent("rollback")
    /\ ServerRollback
    /\ UNCHANGED <<i, nRollback, clock, duration, kill, victims, lockRes, leRet>>
    /\ UNCHANGED <<tix, ntab, hook, status, failedAt, hookAtFail, indexes, ix, built, ws0>>
    /\ UNCHANGED <<envVars, connVars, dbVars, dataVars, wrVars>>

\* RESET: the setting returns to the server's default; made in a
\* transaction it replaces a SET LOCAL made before it and stays after COMMIT
ServerReset ==
    /\ gucTxSet' = IF inTx THEN Some(serverDefault) ELSE gucTxSet
    /\ gucTxLocal' = None
    /\ gucSess' = IF inTx THEN gucSess ELSE serverDefault

\* LeReset had lock_exclusive returned without RESET statement_timeout
LeReturnNoReset ==
    /\ pc = "le_reset"
    /\ pc' = IF leRet = "setup" THEN "conflicted_triggers" ELSE "final_apply"
    /\ clock' = 0
    /\ duration' = 0
    /\ kill' = "none"
    /\ victims' = {}
    /\ UNCHANGED <<i, nRollback, lockRes, leRet>>
    /\ UNCHANGED <<tix, ntab, hook, status, failedAt, hookAtFail, stmt, indexes, ix, built>>
    /\ UNCHANGED <<sessVars, wsVars, envVars, connVars, dbVars, dataVars, wrVars>>

\* command("RESET statement_timeout"), and the return to the caller; of the
\* locals, i and the count of ROLLBACKs are kept as a record of the call
LeReset ==
    /\ pc = "le_reset"
    /\ pc' = IF leRet = "setup" THEN "conflicted_triggers" ELSE "final_apply"
    /\ stmt' = Sent("reset_timeout")
    /\ ServerReset
    /\ clock' = 0
    /\ duration' = 0
    /\ kill' = "none"
    /\ victims' = {}
    /\ UNCHANGED <<i, nRollback, lockRes, leRet>>
    /\ UNCHANGED <<inTx, iso, lockHeld>>
    /\ UNCHANGED <<tix, ntab, hook, status, failedAt, hookAtFail, indexes, ix, built>>
    /\ UNCHANGED <<wsVars, envVars, connVars, dbVars, dataVars, wrVars>>

lock_exclusive ==
    \/ LeStart
    \/ LeBegin
    \/ LeCheck
    \/ LeSetTimeout
    \/ LeLockOk
    \/ LeLockCanceled
    \/ LeRollback
    \/ LeReset


(***************************************************************************)
(* The server: rows.  A relation is a bag of rows <<key, value>>; a log    *)
(* row is [tx, op, key, val] as the trigger z_repack_trigger writes it.    *)
(***************************************************************************)
RECURSIVE Copies(_, _)
\* the number of rows of bag B among the rows S
Copies(B, S) ==
    IF S = {} THEN 0
    ELSE LET r == CHOOSE x \in S : TRUE
         IN B[r] + Copies(B, S \ {r})

RowsOfKey(B, k) == {r \in DOMAIN B : r[1] = k}

\* INSERT INTO relation VALUES (row)
RowInsert(B, k, v) == B (+) SetToBag({<<k, v>>})

\* DELETE FROM relation WHERE pk = k
RowDelete(B, k) == [r \in {x \in DOMAIN B : x[1] # k} |-> B[r]]

\* UPDATE relation SET row = (k, v) WHERE pk = k
RowUpdate(B, k, v) ==
    LET n == Copies(B, RowsOfKey(B, k))
    IN IF n = 0 THEN B
       ELSE RowDelete(B, k) (+) [r \in {<<k, v>>} |-> n]

\* one log row applied (repack_apply: sql_insert, sql_delete, sql_update)
ApplyRow(B, e) ==
    IF e.op = "ins" THEN RowInsert(B, e.key, e.val)
    ELSE IF e.op = "del" THEN RowDelete(B, e.key)
    ELSE RowUpdate(B, e.key, e.val)

RECURSIVE ApplyRows(_, _)
ApplyRows(B, rows) ==
    IF rows = <<>> THEN B
    ELSE ApplyRows(ApplyRow(B, Head(rows)), Tail(rows))

\* the writer transactions a statement of the client sees as committed: a
\* serializable transaction keeps the snapshot of its first query, a read
\* committed one (and a statement outside a transaction) sees what is
\* committed when the statement starts
VisibleTx == IF iso = "ser" /\ snap.on THEN snap.tx ELSE committed
VisibleTbl == IF iso = "ser" /\ snap.on THEN snap.tbl ELSE tbl

\* sql_peek: the visible log rows in id order, at most count of them
\* (count = 0: all)
Peek(count) ==
    LET vis == SelectSeq(log, LAMBDA e : e.tx \in VisibleTx)
    IN IF count = 0 \/ Len(vis) <= count THEN vis ELSE SubSeq(vis, 1, count)

TxOf(rows) == {rows[n].tx : n \in 1..Len(rows)}

\* the transactions that are running (pg_locks: locktype = 'virtualxid')
RunningTx == {wtx[w] : w \in {x \in Writers : wst[x] # "idle"}}

NoSnap == [on |-> FALSE, tbl |-> EmptyBag, tx |-> {}]

\* the next position after a statement that only has to succeed
Step(from, to, kind) ==
    /\ pc = from
    /\ pc' = to
    /\ stmt' = Sent(kind)
    /\ UNCHANGED <<tix, ntab, hook, status, failedAt, hookAtFail, indexes, ix, built>>

(***************************************************************************)
(* main and repack_all_databases (lines 128-205).                          *)
(***************************************************************************)

\* the reasons repack_one_database writes to errbuf
NoReason == [msg |-> "", program |-> "", found |-> ""]
NotInstalled == [msg |-> "is not installed in the database", program |-> "", found |-> ""]
ErrorMessage == [msg |-> "PQerrorMessage", program |-> "", found |-> ""]
LibraryMismatch(found) ==
    [msg |-> "program does not match database library", program |-> Program,
     found |-> found]
ExtensionMismatch(found) ==
    [msg |-> "extension required, found extension", program |-> Program,
     found |-> found]

\* cleanup: disconnect(); return ret.  With --all the database loop prints
\* the outcome and goes on; without it main returns 0 if ret, and reports
\* errbuf with ereport(ERROR) if not.
Return(ret, reason) ==
    /\ report' = Append(report, [db |-> dbix, ret |-> ret, reason |-> reason])
    /\ pc' = IF alldb THEN "db_loop" ELSE "exited"
    /\ status' = IF alldb THEN status ELSE IF ret THEN "ok" ELSE "error"
    /\ conn' = "none"
    /\ ServerRollback

ReturnFalse(reason) ==
    /\ Return(FALSE, reason)
    /\ failedAt' = IF alldb THEN failedAt ELSE pc
    /\ hookAtFail' = IF alldb THEN hookAtFail ELSE hook

\* dbname = "postgres"; reconnect(ERROR); execute("SELECT datname FROM
\* pg_database WHERE datallowconn ORDER BY 1;"); disconnect()
ListDatabases ==
    /\ pc = "list_databases"
    /\ pc' = "db_loop"
    /\ dbix' = 0
    /\ stmt' = [kind |-> "list_databases", sess |-> "primary", tx |-> FALSE]
    /\ UNCHANGED <<tix, ntab, hook, status, failedAt, hookAtFail, indexes, ix, built>>
    /\ UNCHANGED <<alldb, dbs, report>>
    /\ UNCHANGED <<sessVars, lockVars, wsVars, envVars, connVars, dataVars, wrVars>>

\* for (i = 0; i < PQntuples(result); i++): dbname = PQgetvalue(result, i, 0);
\* ret = repack_one_database(orderby, NULL, errbuf, sizeof(errbuf))
DbNext ==
    /\ pc = "db_loop"
    /\ dbix < Len(dbs)
    /\ pc' = "reconnect"
    /\ dbix' = dbix + 1
    /\ UNCHANGED <<tix, ntab, hook, status, failedAt, hookAtFail, stmt, indexes, ix, built>>
    /\ UNCHANGED <<alldb, dbs, report>>
    /\ UNCHANGED <<sessVars, lockVars, wsVars, envVars, connVars, dataVars, wrVars>>

\* the loop ends: PQclear(result); main returns 0
AllDone ==
    /\ pc = "db_loop"
    /\ dbix >= Len(dbs)
    /\ pc' = "exited"
    /\ status' = "ok"
    /\ UNCHANGED <<tix, ntab, hook, failedAt, hookAtFail, stmt, indexes, ix, built>>
    /\ UNCHANGED <<sessVars, lockVars, wsVars, envVars, connVars, dbVars, dataVars, wrVars>>

repack_all_databases ==
    \/ ListDatabases
    \/ DbNext
    \/ AllDone

(***************************************************************************)
(* repack_one_database (lines 229-407).                                    *)
(***************************************************************************)

\* reconnect(ERROR): a new session, with the server's settings
Reconnect ==
    /\ pc = "reconnect"
    /\ pc' = "probe"
    /\ conn' = "ok"
    /\ stmt' = [kind |-> "connect", sess |-> "primary", tx |-> FALSE]
    /\ inTx' = FALSE
    /\ iso' = "none"
    /\ lockHeld' = FALSE
    /\ gucSess' = serverDefault
    /\ gucTxSet' = None
    /\ gucTxLocal' = None
    /\ UNCHANGED <<tix, ntab, hook, status, failedAt, hookAtFail, indexes, ix, built>>
    /\ UNCHANGED <<banner, lost>>
    /\ UNCHANGED <<lockVars, wsVars, envVars, dbVars, dataVars, wrVars>>

\* ProbeOk had the version of the SQL extension not been compared
ProbeOkLibraryOnly ==
    /\ pc = "probe"
    /\ dbs[dbix].probe = "ok"
    /\ dbs[dbix].lib = Program
    /\ Step("probe", "set_statement_timeout", "probe")
    /\ UNCHANGED <<sessVars, lockVars, wsVars, envVars, connVars, dbVars, dataVars, wrVars>>

\* execute_elevel("select repack.version(), repack.version_sql()"):
\* PGRES_TUPLES_OK and both strings are "<PROGRAM_NAME> <PROGRAM_VERSION>"
ProbeOk ==
    /\ pc = "probe"
    /\ dbs[dbix].probe = "ok"
    /\ dbs[dbix].lib = Program
    /\ dbs[dbix].sql = Program
    /\ Step("probe", "set_statement_timeout", "probe")
    /\ UNCHANGED <<sessVars, lockVars, wsVars, envVars, connVars, dbVars, dataVars, wrVars>>

\* one of the two strings differs: errbuf names both sides, goto cleanup.
\* The library is compared first.
ProbeMismatch ==
    /\ pc = "probe"
    /\ dbs[dbix].probe = "ok"
    /\ dbs[dbix].lib # Program \/ dbs[dbix].sql # Program
    /\ stmt' = Sent("probe")
    /\ ReturnFalse(IF dbs[dbix].lib # Program
                   THEN LibraryMismatch(dbs[dbix].lib)
                   ELSE ExtensionMismatch(dbs[dbix].sql))
    /\ UNCHANGED <<tix, ntab, hook, indexes, ix, built, ws0>>
    /\ UNCHANGED <<lockVars, envVars, banner, lost, alldb, dbs, dbix, dataVars, wrVars>>

\* ProbeError had a failing probe ended the process
ProbeErrorExits ==
    /\ pc = "probe"
    /\ dbs[dbix].probe # "ok"
    /\ stmt' = Sent("probe")
    /\ ExitError
    /\ UNCHANGED <<tix, ntab, hook, indexes, ix, built, ws0>>
    /\ UNCHANGED <<lockVars, envVars, connVars, dbVars, dataVars, wrVars>>

\* the probe fails: with SQLSTATE_INVALID_SCHEMA_NAME "not installed",
\* otherwise the server's message; goto cleanup
ProbeError ==
    /\ pc = "probe"
    /\ dbs[dbix].probe # "ok"
    /\ stmt' = Sent("probe")
    /\ ReturnFalse(IF dbs[dbix].probe = "3F000" THEN NotInstalled ELSE ErrorMessage)
    /\ UNCHANGED <<tix, ntab, hook, indexes, ix, built, ws0>>
    /\ UNCHANGED <<lockVars, envVars, banner, lost, alldb, dbs, dbix, dataVars, wrVars>>


\* command("SET statement_timeout = 0")
SetStatementTimeout ==
    /\ Step("set_statement_timeout", "set_search_path", "set_timeout")
    /\ gucSess' = IF inTx THEN gucSess ELSE 0
    /\ gucTxSet' = IF inTx THEN Some(0) ELSE gucTxSet
    /\ gucTxLocal' = IF inTx THEN None ELSE gucTxLocal
    /\ UNCHANGED <<inTx, iso, lockHeld>>
    /\ UNCHANGED <<lockVars, wsVars, envVars, connVars, dbVars, dataVars, wrVars>>

\* command("SET search_path = pg_catalog, pg_temp, public")
SetSearchPath ==
    /\ Step("set_search_path", "set_client_min_messages", "set")
    /\ UNCHANGED <<sessVars, lockVars, wsVars, envVars, connVars, dbVars, dataVars, wrVars>>

\* command("SET client_min_messages = warning")
SetClientMinMessages ==
    /\ Step("set_client_min_messages", "enumerate", "set")
    /\ UNCHANGED <<sessVars, lockVars, wsVars, envVars, connVars, dbVars, dataVars, wrVars>>

\* SELECT * FROM repack.tables WHERE ...: num = PQntuples(res)
Enumerate ==
    /\ pc = "enumerate"
    /\ dbs[dbix].enum = "ok"
    /\ pc' = "table_loop"
    /\ stmt' = Sent("enumerate")
    /\ ntab' = nrows
    /\ tix' = 0
    /\ UNCHANGED <<hook, status, failedAt, hookAtFail, indexes, ix, built>>
    /\ UNCHANGED <<sessVars, lockVars, wsVars, envVars, connVars, dbVars, dataVars, wrVars>>

\* for (i = 0; i < num; i++): repack_one_table(&table, orderby).  The
\* workspace of the next target is what an earlier run left of it.
TableNext ==
    /\ pc = "table_loop"
    /\ tix < ntab
    /\ jobs[tix + 1].pkid # 0
    /\ orderby = "NULL" => jobs[tix + 1].ckey
    /\ pc' = "le_start"
    /\ tix' = tix + 1
    /\ leRet' = "setup"
    /\ ws' = resid[tix + 1]
    /\ wsCur' = resid[tix + 1]
    /\ ws0' = resid[tix + 1]
    /\ swapped' = "no"
    /\ UNCHANGED <<ntab, hook, status, failedAt, hookAtFail, stmt, indexes, ix, built>>
    /\ UNCHANGED <<i, clock, duration, kill, victims, lockRes, nRollback>>
    /\ UNCHANGED <<sessVars, envVars, connVars, dbVars, dataVars, wrVars>>

\* an ereport(ERROR) of the table loop about row tix + 1: the process ends
\* with no hook registered, having sent nothing for that table
TableError(why) ==
    /\ pc = "table_loop"
    /\ tix < ntab
    /\ tix' = tix + 1
    /\ pc' = "exited"
    /\ status' = "error"
    /\ failedAt' = why
    /\ hookAtFail' = hook
    /\ conn' = "none"
    /\ ServerRollback
    /\ UNCHANGED <<ntab, hook, stmt, indexes, ix, built, ws0, banner, lost>>
    /\ UNCHANGED <<lockVars, envVars, dbVars, dataVars, wrVars>>

\* TableNoPkey had the row been passed on to repack_one_table
TableNoPkeyPassed ==
    /\ pc = "table_loop"
    /\ tix < ntab
    /\ jobs[tix + 1].pkid = 0
    /\ pc' = "le_start"
    /\ tix' = tix + 1
    /\ leRet' = "setup"
    /\ ws' = resid[tix + 1]
    /\ wsCur' = resid[tix + 1]
    /\ ws0' = resid[tix + 1]
    /\ swapped' = "no"
    /\ UNCHANGED <<ntab, hook, status, failedAt, hookAtFail, stmt, indexes, ix, built>>
    /\ UNCHANGED <<i, clock, duration, kill, victims, lockRes, nRollback>>
    /\ UNCHANGED <<sessVars, envVars, connVars, dbVars, dataVars, wrVars>>

\* if (table.pkid == 0) ereport(ERROR, "relation ... must have a primary
\* key or not-null unique keys")
TableNoPkey ==
    /\ pc = "table_loop"
    /\ tix < ntab
    /\ jobs[tix + 1].pkid = 0
    /\ TableError("no_primary_key")

\* CLUSTER mode: if (ckey == NULL) ereport(ERROR, "relation ... has no
\* cluster key")
TableNoCkey ==
    /\ pc = "table_loop"
    /\ tix < ntab
    /\ jobs[tix + 1].pkid # 0
    /\ orderby = "NULL"
    /\ ~jobs[tix + 1].ckey
    /\ TableError("no_cluster_key")

\* ret = true; cleanup: disconnect(); return ret.  main returns 0;
\* repack_all_databases goes on with the next database
DatabaseDone ==
    /\ pc = "table_loop"
    /\ tix >= ntab
    /\ Return(TRUE, NoReason)
    /\ failedAt' = failedAt
    /\ hookAtFail' = hookAtFail
    /\ UNCHANGED <<tix, ntab, hook, stmt, indexes, ix, built, ws0>>
    /\ UNCHANGED <<lockVars, envVars, banner, lost, alldb, dbs, dbix, dataVars, wrVars>>


(***************************************************************************)
(* repack_one_table (lines 435-659).                                       *)
(***************************************************************************)

\* a statement that changes nothing the model follows
Plain(from, to, kind) ==
    /\ Step(from, to, kind)
    /\ UNCHANGED <<sessVars, lockVars, wsVars, envVars, connVars, dbVars, dataVars, wrVars>>

\* a statement that creates the workspace object obj
Create(from, to, obj) ==
    /\ Step(from, to, from)
    /\ CanCreate(obj)
    /\ SetWorkspace(wsCur \cup {obj})
    /\ UNCHANGED <<ws0, swapped>>
    /\ UNCHANGED <<sessVars, lockVars, envVars, connVars, dbVars, dataVars, wrVars>>

\* execute("SELECT repack.conflicted_triggers($1)"): no row
ConflictedTriggers ==
    /\ pc = "conflicted_triggers"
    /\ Plain("conflicted_triggers", "create_pktype", "conflicted_triggers")

\* PQntuples(res) > 0: ereport(ERROR, "trigger %s conflicted for %s")
ConflictedTriggersFound ==
    /\ pc = "conflicted_triggers"
    /\ stmt' = Sent("conflicted_triggers")
    /\ ExitError
    /\ UNCHANGED <<tix, ntab, hook, indexes, ix, built, ws0>>
    /\ LeaveLock
    /\ UNCHANGED <<envVars, connVars, dbVars, dataVars, wrVars>>

\* CreatePktype had an existing repack.pk_<oid> been taken over
CreatePktypeTakeOver ==
    /\ Step("create_pktype", "create_log", "create_pktype")
    /\ SetWorkspace(wsCur \cup {"pktype"})
    /\ UNCHANGED <<ws0, swapped>>
    /\ UNCHANGED <<sessVars, lockVars, envVars, connVars, dbVars, dataVars, wrVars>>

\* command(table->create_pktype)
CreatePktype ==
    /\ pc = "create_pktype"
    /\ Create("create_pktype", "create_log", "pktype")

\* command(table->create_log)
CreateLog ==
    /\ pc = "create_log"
    /\ Create("create_log", "create_trigger", "log")

\* command(table->create_trigger)
CreateTrigger ==
    /\ pc = "create_trigger"
    /\ Create("create_trigger", "enable_trigger", "trigger")

\* command(table->enable_trigger)
EnableTrigger ==
    /\ pc = "enable_trigger"
    /\ Plain("enable_trigger", "disable_autovacuum_log", "enable_trigger")

\* command("SELECT repack.disable_autovacuum('repack.log_%u')")
DisableAutovacuumLog ==
    /\ pc = "disable_autovacuum_log"
    /\ Plain("disable_autovacuum_log", "commit_setup", "disable_autovacuum")

\* a COMMIT of the client
Commit(from, to) ==
    /\ Step(from, to, "commit")
    /\ ServerCommit
    /\ UNCHANGED ws0
    /\ UNCHANGED <<lockVars, envVars, connVars, dbVars, wrVars>>

\* CommitSetup had the setup transaction been left open
CommitSetupOmitted ==
    /\ Step("commit_setup", "atexit_push", "none")
    /\ UNCHANGED <<sessVars, lockVars, wsVars, envVars, connVars, dbVars, dataVars, wrVars>>

\* command("COMMIT") of the setup (line 496)
CommitSetup ==
    /\ Commit("commit_setup", "atexit_push")
    /\ UNCHANGED dataVars

\* AtexitPush had the hook not been registered
AtexitPushOmitted ==
    /\ pc = "atexit_push"
    /\ pc' = "begin_serializable"
    /\ UNCHANGED <<tix, ntab, hook, status, failedAt, hookAtFail, stmt, indexes, ix, built>>
    /\ UNCHANGED <<sessVars, lockVars, wsVars, envVars, connVars, dbVars, dataVars, wrVars>>

\* pgut_atexit_push(&repack_cleanup, table)
AtexitPush ==
    /\ pc = "atexit_push"
    /\ pc' = "begin_serializable"
    /\ hook' = TRUE
    /\ UNCHANGED <<tix, ntab, status, failedAt, hookAtFail, stmt, indexes, ix, built>>
    /\ UNCHANGED <<sessVars, lockVars, wsVars, envVars, connVars, dbVars, dataVars, wrVars>>

\* BeginSerializable had the copy been begun READ COMMITTED: delete_log and
\* create_table then see different sets of committed transactions
BeginReadCommitted ==
    /\ Step("begin_serializable", "set_work_mem", "begin")
    /\ ServerBegin("rc")
    /\ UNCHANGED <<lockVars, wsVars, envVars, connVars, dbVars, dataVars, wrVars>>

\* command("BEGIN ISOLATION LEVEL SERIALIZABLE")
BeginSerializable ==
    /\ Step("begin_serializable", "set_work_mem", "begin")
    /\ ServerBegin("ser")
    /\ UNCHANGED <<lockVars, wsVars, envVars, connVars, dbVars, dataVars, wrVars>>

\* command("SELECT set_config('work_mem', ...)"): the first query of the
\* transaction, which takes the snapshot of a serializable transaction.
\* "SET LOCAL synchronize_seqscans = off" follows if orderby is "".
SetWorkMem ==
    /\ pc = "set_work_mem"
    /\ pc' = IF orderby = "" THEN "set_seqscans" ELSE "xid_snapshot"
    /\ stmt' = Sent("set_config")
    /\ snap' = IF iso = "ser" THEN [on |-> TRUE, tbl |-> tbl, tx |-> committed]
               ELSE snap
    /\ UNCHANGED <<tix, ntab, hook, status, failedAt, hookAtFail, indexes, ix, built>>
    /\ UNCHANGED <<tbl, shadow, log, committed, copiedTx, appliedTx, vxid, purgedTx, lastApply>>
    /\ UNCHANGED <<sessVars, lockVars, wsVars, envVars, connVars, dbVars, wrVars>>

\* command("SET LOCAL synchronize_seqscans = off")
SetSeqscans ==
    /\ pc = "set_seqscans"
    /\ Plain("set_seqscans", "xid_snapshot", "set")

\* execute(SQL_XID_SNAPSHOT): vxid = the transactions of the other sessions
XidSnapshot ==
    /\ Step("xid_snapshot", "delete_log", "xid_snapshot")
    /\ vxid' = RunningTx
    /\ UNCHANGED <<tbl, shadow, log, committed, snap, copiedTx, appliedTx, purgedTx, lastApply>>
    /\ UNCHANGED <<sessVars, lockVars, wsVars, envVars, connVars, dbVars, wrVars>>

\* command(table->delete_log): DELETE FROM repack.log_<oid> removes the log
\* rows the statement sees
DeleteLog ==
    /\ Step("delete_log", "create_table", "delete_log")
    /\ log' = SelectSeq(log, LAMBDA e : e.tx \notin VisibleTx)
    /\ purgedTx' = purgedTx \cup (TxOf(log) \cap VisibleTx)
    /\ UNCHANGED <<tbl, shadow, committed, snap, copiedTx, appliedTx, vxid, lastApply>>
    /\ UNCHANGED <<sessVars, lockVars, wsVars, envVars, connVars, dbVars, wrVars>>

\* command(table->create_table): CREATE TABLE repack.table_<oid> AS SELECT
\* copies the rows of the target the statement sees.  drop_columns follows
\* if the target has dropped columns.
CreateTable ==
    /\ pc = "create_table"
    /\ pc' \in {"drop_columns", "disable_autovacuum_table"}
    /\ stmt' = Sent("create_table")
    /\ CanCreate("table")
    /\ SetWorkspace(wsCur \cup {"table"})
    /\ shadow' = VisibleTbl
    /\ copiedTx' = VisibleTx
    /\ UNCHANGED <<tix, ntab, hook, status, failedAt, hookAtFail, indexes, ix, built>>
    /\ UNCHANGED <<tbl, log, committed, snap, appliedTx, vxid, purgedTx, lastApply>>
    /\ UNCHANGED <<ws0, swapped>>
    /\ UNCHANGED <<sessVars, lockVars, envVars, connVars, dbVars, wrVars>>

\* command(table->drop_columns)
DropColumns ==
    /\ pc = "drop_columns"
    /\ Plain("drop_columns", "disable_autovacuum_table", "drop_columns")

\* command("SELECT repack.disable_autovacuum('repack.table_%u')")
DisableAutovacuumTable ==
    /\ pc = "disable_autovacuum_table"
    /\ Plain("disable_autovacuum_table", "commit_copy", "disable_autovacuum")

\* command("COMMIT") of the copy (line 534)
CommitCopy ==
    /\ Commit("commit_copy", "index_query")
    /\ snap' = NoSnap
    /\ UNCHANGED <<tbl, shadow, log, committed, copiedTx, appliedTx, vxid, purgedTx, lastApply>>

\* execute("SELECT indexrelid, ... FROM pg_index WHERE indrelid = $1")
IndexQuery ==
    /\ pc = "index_query"
    /\ pc' = "index_loop"
    /\ stmt' = Sent("index_query")
    /\ indexes' \in UNION {[1..n -> BOOLEAN] : n \in 0..MaxIndexes}
    /\ ix' = 1
    /\ built' = <<>>
    /\ UNCHANGED <<tix, ntab, hook, status, failedAt, hookAtFail>>
    /\ UNCHANGED <<sessVars, lockVars, wsVars, envVars, connVars, dbVars, dataVars, wrVars>>

\* CreateIndex had the row's indisvalid not been looked at
CreateIndexInvalidToo ==
    /\ pc = "index_loop"
    /\ ix <= Len(indexes)
    /\ ix' = ix + 1
    /\ stmt' = Sent("create_index")
    /\ built' = Append(built, ix)
    /\ UNCHANGED <<pc, tix, ntab, hook, status, failedAt, hookAtFail, indexes>>
    /\ UNCHANGED <<sessVars, lockVars, wsVars, envVars, connVars, dbVars, dataVars, wrVars>>

\* for (i = 0; i < num; i++): an invalid index is skipped, a valid one is
\* built with command(index.create_index)
CreateIndex ==
    /\ pc = "index_loop"
    /\ ix <= Len(indexes)
    /\ ix' = ix + 1
    /\ stmt' = IF indexes[ix] THEN Sent("create_index") ELSE stmt
    /\ built' = IF indexes[ix] THEN Append(built, ix) ELSE built
    /\ UNCHANGED <<pc, tix, ntab, hook, status, failedAt, hookAtFail, indexes>>
    /\ UNCHANGED <<sessVars, lockVars, wsVars, envVars, connVars, dbVars, dataVars, wrVars>>

\* the index loop ends: PQclear(res)
IndexesDone ==
    /\ pc = "index_loop"
    /\ ix > Len(indexes)
    /\ pc' = "drain_apply"
    /\ indexes' = <<>>
    /\ ix' = 0
    /\ built' = <<>>
    /\ UNCHANGED <<tix, ntab, hook, status, failedAt, hookAtFail, stmt>>
    /\ UNCHANGED <<sessVars, lockVars, wsVars, envVars, connVars, dbVars, dataVars, wrVars>>

\* the rows, the log and the applied transactions after
\* repack.repack_apply(..., count)
ApplyLog(count) ==
    /\ shadow' = ApplyRows(shadow, Peek(count))
    /\ log' = SelectSeq(log, LAMBDA e : e.tx \notin TxOf(Peek(count)))
    /\ appliedTx' = appliedTx \cup TxOf(Peek(count))
    /\ lastApply' = Len(Peek(count))

\* num = apply_log(table, APPLY_COUNT); if (num > 0) continue
DrainApply ==
    /\ pc = "drain_apply"
    /\ pc' = IF Len(Peek(APPLY_COUNT)) > 0 THEN "drain_apply" ELSE "xid_alive"
    /\ stmt' = Sent("apply_log")
    /\ ApplyLog(APPLY_COUNT)
    /\ UNCHANGED <<tix, ntab, hook, status, failedAt, hookAtFail, indexes, ix, built>>
    /\ UNCHANGED <<tbl, committed, snap, copiedTx, vxid, purgedTx>>
    /\ UNCHANGED <<sessVars, lockVars, wsVars, envVars, connVars, dbVars, wrVars>>

\* XidAlive had the loop been left whatever the query returns
XidAliveBreaks ==
    /\ pc = "xid_alive"
    /\ pc' = "le_start"
    /\ leRet' = "swap"
    /\ stmt' = Sent("xid_alive")
    /\ UNCHANGED <<tix, ntab, hook, status, failedAt, hookAtFail, indexes, ix, built>>
    /\ UNCHANGED <<i, clock, duration, kill, victims, lockRes, nRollback>>
    /\ UNCHANGED <<sessVars, wsVars, envVars, connVars, dbVars, dataVars, wrVars>>

\* XidAlive had the loop not asked again which transactions are alive
XidAliveStale ==
    /\ pc = "xid_alive"
    /\ pc' = IF vxid # {} THEN "drain_apply" ELSE "le_start"
    /\ leRet' = IF vxid # {} THEN leRet ELSE "swap"
    /\ stmt' = Sent("xid_alive")
    /\ UNCHANGED <<tix, ntab, hook, status, failedAt, hookAtFail, indexes, ix, built>>
    /\ UNCHANGED <<i, clock, duration, kill, victims, lockRes, nRollback>>
    /\ UNCHANGED <<sessVars, wsVars, envVars, connVars, dbVars, dataVars, wrVars>>

\* execute(SQL_XID_ALIVE, vxid): transactions of vxid are alive: sleep(1)
\* and continue; none is: break, and lock_exclusive is called for the swap
XidAlive ==
    /\ pc = "xid_alive"
    /\ pc' = IF vxid \cap RunningTx # {} THEN "drain_apply" ELSE "le_start"
    /\ leRet' = IF vxid \cap RunningTx # {} THEN leRet ELSE "swap"
    /\ stmt' = Sent("xid_alive")
    /\ UNCHANGED <<tix, ntab, hook, status, failedAt, hookAtFail, indexes, ix, built>>
    /\ UNCHANGED <<i, clock, duration, kill, victims, lockRes, nRollback>>
    /\ UNCHANGED <<sessVars, wsVars, envVars, connVars, dbVars, dataVars, wrVars>>

\* FinalApply had the swap not drained the log under its lock
FinalApplyOmitted ==
    /\ Step("final_apply", "swap", "none")
    /\ UNCHANGED <<sessVars, lockVars, wsVars, envVars, connVars, dbVars, dataVars, wrVars>>

\* apply_log(table, 0)
FinalApply ==
    /\ Step("final_apply", "swap", "apply_log")
    /\ ApplyLog(0)
    /\ UNCHANGED <<tbl, committed, snap, copiedTx, vxid, purgedTx>>
    /\ UNCHANGED <<sessVars, lockVars, wsVars, envVars, connVars, dbVars, wrVars>>

\* command("SELECT repack.repack_swap($1)")
Swap ==
    /\ Step("swap", "commit_swap", "swap")
    /\ swapped' = "pending"
    /\ UNCHANGED <<ws, wsCur, ws0>>
    /\ UNCHANGED <<sessVars, lockVars, envVars, connVars, dbVars, dataVars, wrVars>>

\* command("COMMIT") of the swap (line 628)
CommitSwap ==
    /\ Commit("commit_swap", "begin_drop")
    /\ UNCHANGED dataVars

\* command("BEGIN ISOLATION LEVEL READ COMMITTED") (line 635)
BeginDrop ==
    /\ Step("begin_drop", "drop", "begin")
    /\ ServerBegin("rc")
    /\ UNCHANGED <<lockVars, wsVars, envVars, connVars, dbVars, dataVars, wrVars>>

\* command("SELECT repack.repack_drop($1)"): the workspace objects of the
\* target are dropped
Drop ==
    /\ Step("drop", "commit_drop", "drop")
    /\ SetWorkspace({})
    /\ UNCHANGED <<ws0, swapped>>
    /\ UNCHANGED <<sessVars, lockVars, envVars, connVars, dbVars, dataVars, wrVars>>

\* command("COMMIT") of the drop (line 638)
CommitDrop ==
    /\ Commit("commit_drop", "atexit_pop")
    /\ UNCHANGED dataVars

\* AtexitPop had the hook been left registered
AtexitPopOmitted ==
    /\ pc = "atexit_pop"
    /\ pc' \in {"begin_analyze", "table_loop"}
    /\ UNCHANGED <<tix, ntab, hook, status, failedAt, hookAtFail, stmt, indexes, ix, built>>
    /\ UNCHANGED <<sessVars, lockVars, wsVars, envVars, connVars, dbVars, dataVars, wrVars>>

\* pgut_atexit_pop(&repack_cleanup, table); if (analyze) ...
AtexitPop ==
    /\ pc = "atexit_pop"
    /\ pc' \in {"begin_analyze", "table_loop"}
    /\ hook' = FALSE
    /\ UNCHANGED <<tix, ntab, status, failedAt, hookAtFail, stmt, indexes, ix, built>>
    /\ UNCHANGED <<sessVars, lockVars, wsVars, envVars, connVars, dbVars, dataVars, wrVars>>

\* command("BEGIN ISOLATION LEVEL READ COMMITTED") (line 652)
BeginAnalyze ==
    /\ Step("begin_analyze", "analyze", "begin")
    /\ ServerBegin("rc")
    /\ UNCHANGED <<lockVars, wsVars, envVars, connVars, dbVars, dataVars, wrVars>>

\* command("ANALYZE %s")
Analyze ==
    /\ pc = "analyze"
    /\ Plain("analyze", "commit_analyze", "analyze")

\* command("COMMIT") of the analyze (line 655), and the return
CommitAnalyze ==
    /\ Commit("commit_analyze", "table_loop")
    /\ UNCHANGED dataVars

repack_one_table ==
    \/ ConflictedTriggers
    \/ CreatePktype
    \/ CreateLog
    \/ CreateTrigger
    \/ EnableTrigger
    \/ DisableAutovacuumLog
    \/ CommitSetup
    \/ AtexitPush
    \/ BeginSerializable
    \/ SetWorkMem
    \/ SetSeqscans
    \/ XidSnapshot
    \/ DeleteLog
    \/ CreateTable
    \/ DropColumns
    \/ DisableAutovacuumTable
    \/ CommitCopy
    \/ IndexQuery
    \/ CreateIndex
    \/ IndexesDone
    \/ DrainApply
    \/ XidAlive
    \/ FinalApply
    \/ Swap
    \/ CommitSwap
    \/ BeginDrop
    \/ Drop
    \/ CommitDrop
    \/ AtexitPop
    \/ BeginAnalyze
    \/ Analyze
    \/ CommitAnalyze

repack_one_database ==
    \/ Reconnect
    \/ ProbeOk
    \/ SetStatementTimeout
    \/ SetSearchPath
    \/ SetClientMinMessages
    \/ Enumerate
    \/ TableNext
    \/ DatabaseDone


(***************************************************************************)
(* Failing statements.  command() and execute() end the process with       *)
(* ereport(ERROR) when the server reports an error for the statement.      *)
(***************************************************************************)
FailPcs ==
    {"set_statement_timeout", "set_search_path", "set_client_min_messages",
     "le_begin", "le_set_timeout", "le_rollback", "le_reset",
     "conflicted_triggers", "create_pktype", "create_log", "create_trigger",
     "enable_trigger", "disable_autovacuum_log", "commit_setup",
     "begin_serializable", "set_work_mem", "set_seqscans", "xid_snapshot",
     "delete_log", "create_table", "drop_columns", "disable_autovacuum_table",
     "commit_copy", "index_query", "drain_apply", "xid_alive", "final_apply",
     "swap", "commit_swap", "begin_drop", "drop", "commit_drop",
     "begin_analyze", "analyze", "commit_analyze"}

\* the client is about to send a statement with command() or execute()
AtStatement ==
    \/ pc \in FailPcs
    \/ pc = "le_check" /\ KillQuery(clock) # "none"
    \/ pc = "index_loop" /\ ix <= Len(indexes) /\ indexes[ix]

StmtFail ==
    /\ AtStatement
    /\ stmt' = Sent(IF pc = "le_check" THEN KillQuery(clock) ELSE pc)
    /\ ExitError
    /\ UNCHANGED <<tix, ntab, hook, indexes, ix, built, ws0>>
    /\ LeaveLock
    /\ UNCHANGED <<envVars, connVars, dbVars, dataVars, wrVars>>

\* the enumeration query fails: "on error skip the database"
EnumerateFail ==
    /\ pc = "enumerate"
    /\ dbs[dbix].enum # "ok"
    /\ stmt' = Sent("enumerate")
    /\ ReturnFalse(IF dbs[dbix].enum = "3F000" THEN NotInstalled ELSE ErrorMessage)
    /\ UNCHANGED <<tix, ntab, hook, indexes, ix, built, ws0>>
    /\ UNCHANGED <<lockVars, envVars, banner, lost, alldb, dbs, dbix, dataVars, wrVars>>

\* the connection is lost (the backend is terminated, the server goes
\* down): the server rolls the session's transaction back, and the statement
\* the client sends next fails as any failing statement does; lock_query
\* fails with an error other than 57014
ConnLost ==
    /\ AtStatement \/ pc = "le_lock"
    /\ conn = "ok"
    /\ conn' = "bad"
    /\ lost' = TRUE
    /\ stmt' = Sent(IF pc = "le_check" THEN KillQuery(clock)
                    ELSE IF pc = "le_lock" THEN "lock" ELSE pc)
    /\ failedAt' = pc
    /\ hookAtFail' = hook
    /\ pc' = IF hook THEN "cl_rollback" ELSE "exited"
    /\ status' = IF hook THEN status ELSE "error"
    /\ ServerRollback
    /\ UNCHANGED banner
    /\ UNCHANGED <<tix, ntab, hook, indexes, ix, built, ws0>>
    /\ lockRes' = IF pc = "le_lock" THEN "error" ELSE lockRes
    /\ clock' = 0
    /\ duration' = 0
    /\ kill' = "none"
    /\ victims' = {}
    /\ UNCHANGED <<i, leRet, nRollback>>
    /\ UNCHANGED <<envVars, dbVars, dataVars, wrVars>>

(***************************************************************************)
(* repack_cleanup(fatal, table) (lines 738-764), as the exit handler calls  *)
(* it: with fatal = false first.                                           *)
(***************************************************************************)

\* CleanupRollback had the hook not sent ROLLBACK before repack_drop
CleanupNoRollback ==
    /\ pc = "cl_rollback"
    /\ pc' = "cl_reconnect"
    /\ UNCHANGED <<tix, ntab, hook, status, failedAt, hookAtFail, stmt, indexes, ix, built>>
    /\ UNCHANGED <<sessVars, lockVars, wsVars, envVars, connVars, dbVars, dataVars, wrVars>>

\* if (connection) command("ROLLBACK"): the statement succeeds, which it
\* can only on a connection that is alive
CleanupRollback ==
    /\ pc = "cl_rollback"
    /\ conn = "ok"
    /\ pc' = "cl_reconnect"
    /\ stmt' = Sent("cleanup_rollback")
    /\ ServerRollback
    /\ UNCHANGED <<tix, ntab, hook, status, failedAt, hookAtFail, indexes, ix, built, ws0>>
    /\ UNCHANGED <<lockVars, envVars, connVars, dbVars, dataVars, wrVars>>

\* if (PQstatus(connection) != CONNECTION_OK) reconnect(ERROR)
CleanupReconnect ==
    /\ pc = "cl_reconnect"
    /\ pc' = "cl_drop"
    /\ conn' = "ok"
    /\ IF conn # "ok"
       THEN /\ stmt' = [kind |-> "connect", sess |-> "primary", tx |-> FALSE]
            /\ gucSess' = serverDefault
            /\ UNCHANGED <<inTx, iso, lockHeld, gucTxSet, gucTxLocal>>
       ELSE UNCHANGED <<stmt, sessVars>>
    /\ UNCHANGED <<banner, lost>>
    /\ UNCHANGED <<tix, ntab, hook, status, failedAt, hookAtFail, indexes, ix, built>>
    /\ UNCHANGED <<lockVars, wsVars, envVars, dbVars, dataVars, wrVars>>

\* command("SELECT repack.repack_drop($1)")
CleanupDrop ==
    /\ pc = "cl_drop"
    /\ conn = "ok"
    /\ pc' = "cl_exit"
    /\ stmt' = Sent("cleanup_drop")
    /\ SetWorkspace({})
    /\ UNCHANGED <<tix, ntab, hook, status, failedAt, hookAtFail, indexes, ix, built>>
    /\ UNCHANGED <<ws0, swapped>>
    /\ UNCHANGED <<sessVars, lockVars, envVars, connVars, dbVars, dataVars, wrVars>>

\* the exit handler closes the connection and the process ends with the
\* status of the exit() that started the cleanup
CleanupExit ==
    /\ pc = "cl_exit"
    /\ pc' = "exited"
    /\ status' = "error"
    /\ ServerRollback
    /\ UNCHANGED <<tix, ntab, hook, failedAt, hookAtFail, stmt, indexes, ix, built, ws0>>
    /\ UNCHANGED <<lockVars, envVars, connVars, dbVars, dataVars, wrVars>>

\* a statement of the cleanup fails (on a lost connection it cannot but
\* fail): ereport(ERROR) inside the exit handler, which calls the hooks
\* again, with fatal = true, and aborts
CleanupFail ==
    /\ pc \in {"cl_rollback", "cl_drop"}
    /\ pc' = "cl_fatal"
    /\ stmt' = Sent(IF pc = "cl_rollback" THEN "cleanup_rollback" ELSE "cleanup_drop")
    /\ UNCHANGED <<tix, ntab, hook, status, failedAt, hookAtFail, indexes, ix, built>>
    /\ UNCHANGED <<sessVars, lockVars, wsVars, envVars, connVars, dbVars, dataVars, wrVars>>

\* CleanupFatal had the fatal flag been ignored: repack_drop is sent
CleanupFatalDrops ==
    /\ pc = "cl_fatal"
    /\ pc' = "cl_abort"
    /\ stmt' = Sent("cleanup_drop")
    /\ SetWorkspace({})
    /\ UNCHANGED <<tix, ntab, hook, status, failedAt, hookAtFail, indexes, ix, built>>
    /\ UNCHANGED <<ws0, swapped>>
    /\ UNCHANGED <<sessVars, lockVars, envVars, connVars, dbVars, dataVars, wrVars>>

\* repack_cleanup(fatal = true, table): fprintf(stderr, "!!!FATAL ERROR!!!
\* Please refer to the manual.")
CleanupFatal ==
    /\ pc = "cl_fatal"
    /\ pc' = "cl_abort"
    /\ banner' = TRUE
    /\ UNCHANGED <<conn, lost>>
    /\ UNCHANGED <<tix, ntab, hook, status, failedAt, hookAtFail, stmt, indexes, ix, built>>
    /\ UNCHANGED <<sessVars, lockVars, wsVars, envVars, dbVars, dataVars, wrVars>>

\* abort(): the process ends, and with it the session
Abort ==
    /\ pc = "cl_abort"
    /\ pc' = "exited"
    /\ status' = "fatal"
    /\ ServerRollback
    /\ UNCHANGED <<tix, ntab, hook, failedAt, hookAtFail, stmt, indexes, ix, built, ws0>>
    /\ UNCHANGED <<lockVars, envVars, connVars, dbVars, dataVars, wrVars>>

repack_cleanup ==
    \/ CleanupRollback
    \/ CleanupReconnect
    \/ CleanupDrop
    \/ CleanupExit
    \/ CleanupFatal

(***************************************************************************)
(* The other sessions of the server.                                       *)
(***************************************************************************)
LePcs == {"le_begin", "le_check", "le_set_timeout", "le_lock", "le_rollback"}

\* a second passes while lock_exclusive tries
Tick ==
    /\ pc \in LePcs
    /\ clock < MaxClock
    /\ clock' = clock + 1
    /\ UNCHANGED <<i, duration, kill, victims, lockRes, leRet, nRollback>>
    /\ UNCHANGED <<progVars, sessVars, wsVars, envVars, connVars, dbVars, dataVars, wrVars>>

\* a session takes a lock on the target that conflicts with lock_table and
\* keeps it while it runs a statement ("active") or idles in its
\* transaction ("idle").  Such a lock shows only in lock_exclusive.
BlockerLock(b) ==
    /\ pc \in LePcs
    /\ ~lockHeld
    /\ blk[b] = "none"
    /\ \E k \in {"active", "idle"} : blk' = [blk EXCEPT ![b] = k]
    /\ UNCHANGED <<serverDefault, canTerminate, resid, nrows, orderby, table, jobs, connVars, dbVars>>
    /\ UNCHANGED <<progVars, sessVars, lockVars, wsVars, dataVars, wrVars>>

\* the session ends its transaction, by itself or after a signal
BlockerUnlock(b) ==
    /\ blk[b] # "none"
    /\ blk' = [blk EXCEPT ![b] = "none"]
    /\ UNCHANGED <<serverDefault, canTerminate, resid, nrows, orderby, table, jobs, connVars, dbVars>>
    /\ UNCHANGED <<progVars, sessVars, lockVars, wsVars, dataVars, wrVars>>

\* a session holds a conflicting lock when lock_exclusive is called
BlockerHolds(b) ==
    /\ pc = "le_start"
    /\ blk[b] = "none"
    /\ \E k \in {"active", "idle"} : blk' = [blk EXCEPT ![b] = k]
    /\ UNCHANGED <<serverDefault, canTerminate, resid, nrows, orderby, table, jobs, connVars, dbVars>>
    /\ UNCHANGED <<progVars, sessVars, lockVars, wsVars, dataVars, wrVars>>

\* a session that got a signal has handled it: its lock is gone
BlockerDies(b) ==
    /\ blk[b] = "dying"
    /\ BlockerUnlock(b)

Blocker == \E b \in Blockers : BlockerLock(b) \/ BlockerUnlock(b)

NoWrite == [tx |-> 0, op |-> "ins", key |-> 1, val |-> 0]

\* a writer starts a transaction (of the idle writers, which are alike, the
\* first)
WBegin(w) ==
    /\ status = "running"
    /\ swapped = "no"
    /\ wst[w] = "idle"
    /\ \A o \in Writers : wst[o] = "idle" => w <= o
    /\ nxid <= MaxXid
    /\ wst' = [wst EXCEPT ![w] = "begun"]
    /\ wtx' = [wtx EXCEPT ![w] = nxid]
    /\ nxid' = nxid + 1
    /\ UNCHANGED wr
    /\ UNCHANGED <<progVars, sessVars, lockVars, wsVars, envVars, connVars, dbVars, dataVars>>

\* the operations a writer can do on key k of the committed target
OpsOn(k) == IF RowsOfKey(tbl, k) = {} THEN {"ins"} ELSE {"upd", "del"}

\* a writer inserts, updates or deletes a row of the target: it needs the
\* table lock, which conflicts with lock_table, and the row, which an
\* uncommitted write of another transaction keeps; the trigger, once
\* committed, writes the log row in the writer's transaction
WWrite(w) ==
    /\ swapped = "no"
    /\ wst[w] = "begun"
    /\ ~lockHeld
    /\ \E k \in Keys, op \in {"ins", "upd", "del"} :
        /\ op \in OpsOn(k)
        /\ \A o \in Writers \ {w} : wst[o] = "wrote" => wr[o].key # k
        /\ LET e == [tx |-> wtx[w], op |-> op, key |-> k, val |-> wtx[w]]
           IN /\ wr' = [wr EXCEPT ![w] = e]
              /\ log' = IF "trigger" \in ws THEN Append(log, e) ELSE log
    /\ wst' = [wst EXCEPT ![w] = "wrote"]
    /\ UNCHANGED <<wtx, nxid>>
    /\ UNCHANGED <<tbl, shadow, committed, snap, copiedTx, appliedTx, vxid, purgedTx, lastApply>>
    /\ UNCHANGED <<progVars, sessVars, lockVars, wsVars, envVars, connVars, dbVars>>

\* a writer commits: its write and its log row become visible
WCommit(w) ==
    /\ wst[w] # "idle"
    /\ wst' = [wst EXCEPT ![w] = "idle"]
    /\ tbl' = IF wst[w] = "wrote" THEN ApplyRow(tbl, wr[w]) ELSE tbl
    /\ committed' = IF wst[w] = "wrote" THEN committed \cup {wtx[w]} ELSE committed
    /\ wtx' = [wtx EXCEPT ![w] = 0]
    /\ wr' = [wr EXCEPT ![w] = NoWrite]
    /\ UNCHANGED nxid
    /\ UNCHANGED <<shadow, log, snap, copiedTx, appliedTx, vxid, purgedTx, lastApply>>
    /\ UNCHANGED <<progVars, sessVars, lockVars, wsVars, envVars, connVars, dbVars>>

\* a writer rolls back (by itself, or canceled or terminated): its write
\* and its log row are gone
WAbort(w) ==
    /\ wst[w] # "idle"
    /\ wst' = [wst EXCEPT ![w] = "idle"]
    /\ log' = SelectSeq(log, LAMBDA e : e.tx # wtx[w])
    /\ wtx' = [wtx EXCEPT ![w] = 0]
    /\ wr' = [wr EXCEPT ![w] = NoWrite]
    /\ UNCHANGED nxid
    /\ UNCHANGED <<tbl, shadow, committed, snap, copiedTx, appliedTx, vxid, purgedTx, lastApply>>
    /\ UNCHANGED <<progVars, sessVars, lockVars, wsVars, envVars, connVars, dbVars>>

Writer == \E w \in Writers : WBegin(w) \/ WWrite(w) \/ WCommit(w) \/ WAbort(w)

(***************************************************************************)
(* The specifications.                                                     *)
(***************************************************************************)
InitClient ==
    /\ pc = IF alldb THEN "list_databases" ELSE "reconnect"
    /\ dbix = IF alldb THEN 0 ELSE 1
    /\ report = <<>>
    /\ tix = 0
    /\ ntab = 0
    /\ hook = FALSE
    /\ status = "running"
    /\ failedAt = "none"
    /\ hookAtFail = FALSE
    /\ stmt = [kind |-> "connect", sess |-> "primary", tx |-> FALSE]
    /\ indexes = <<>>
    /\ ix = 0
    /\ built = <<>>
    /\ inTx = FALSE
    /\ iso = "none"
    /\ lockHeld = FALSE
    /\ gucSess = serverDefault
    /\ gucTxSet = None
    /\ gucTxLocal = None
    /\ i = 0
    /\ clock = 0
    /\ duration = 0
    /\ kill = "none"
    /\ victims = {}
    /\ lockRes = "none"
    /\ leRet = "setup"
    /\ nRollback = 0
    /\ ws = {}
    /\ wsCur = {}
    /\ ws0 = {}
    /\ swapped = "no"
    /\ blk = [b \in Blockers |-> "none"]
    /\ shadow = EmptyBag
    /\ log = <<>>
    /\ committed = {0}
    /\ snap = NoSnap
    /\ copiedTx = {}
    /\ appliedTx = {}
    /\ vxid = {}
    /\ purgedTx = {}
    /\ lastApply = 0
    /\ wst = [w \in Writers |-> "idle"]
    /\ wtx = [w \in Writers |-> 0]
    /\ wr = [w \in Writers |-> NoWrite]
    /\ nxid = 1
    /\ conn = "none"
    /\ banner = FALSE
    /\ lost = FALSE

\* a run over the tables of a database: any server default, any leftover
\* workspace, statements that fail, sessions that block the lock
Init ==
    /\ serverDefault \in ServerDefaults
    /\ canTerminate \in BOOLEAN
    /\ nrows \in 0..MaxTables
    /\ resid \in {r \in [1..MaxTables -> Residuals] :
                    \A t \in 1..MaxTables : t > nrows => r[t] = {}}
    /\ tbl = SetToBag({<<1, 0>>})
    /\ orderby = ""
    /\ table = FALSE
    /\ jobs = [k \in 1..nrows |-> GoodJob]
    /\ alldb = FALSE
    /\ dbs \in [1..1 -> DbKinds]
    /\ InitClient

Next ==
    \/ repack_one_database
    \/ repack_one_table
    \/ lock_exclusive
    \/ LeLockError
    \/ ConflictedTriggersFound
    \/ StmtFail
    \/ ProbeMismatch
    \/ ProbeError
    \/ EnumerateFail
    \/ repack_cleanup
    \/ CleanupFail
    \/ Abort
    \/ ConnLost
    \/ Blocker
    \/ Tick

Spec == Init /\ [][Next]_vars

\* a run on one table with concurrent writers: a target that holds a row
\* of key 1 and none of key 2, no leftover workspace, no failing statement
InitData ==
    /\ serverDefault = 0
    /\ canTerminate = TRUE
    /\ resid = [t \in 1..MaxTables |-> {}]
    /\ nrows = 1
    /\ tbl = SetToBag({<<1, 0>>})
    /\ orderby = ""
    /\ table = FALSE
    /\ jobs = [k \in 1..nrows |-> GoodJob]
    /\ alldb = FALSE
    /\ dbs = <<Installed>>
    /\ InitClient

NextData ==
    \/ repack_one_database
    \/ repack_one_table
    \/ lock_exclusive
    \/ Writer

SpecData == InitData /\ [][NextData]_vars


\* a run with --all: up to MaxDbs databases of any kind with one table
\* each, statements that fail, no other session
InitAll ==
    /\ serverDefault = 0
    /\ canTerminate = TRUE
    /\ resid = [t \in 1..MaxTables |-> {}]
    /\ nrows = 1
    /\ tbl = SetToBag({<<1, 0>>})
    /\ orderby = ""
    /\ table = FALSE
    /\ jobs = [k \in 1..nrows |-> GoodJob]
    /\ alldb = TRUE
    /\ dbs \in UNION {[1..n -> DbKinds] : n \in 0..MaxDbs}
    /\ InitClient

NextAll ==
    \/ repack_all_databases
    \/ repack_one_database
    \/ repack_one_table
    \/ LeStart
    \/ LeBegin
    \/ LeCheck
    \/ LeSetTimeout
    \/ LeLockOk
    \/ LeReset
    \/ ProbeMismatch
    \/ ProbeError
    \/ EnumerateFail
    \/ StmtFail
    \/ repack_cleanup
    \/ CleanupFail
    \/ Abort

SpecAll == InitAll /\ [][NextAll]_vars

\* the WHERE clause of the enumeration: relid = $1 with --table, else pkid
\* IS NOT NULL and, with no orderby, ckid IS NOT NULL (ckey is null exactly
\* when ckid is)
Selected(job) ==
    IF table THEN TRUE
    ELSE job.pkid # 0 /\ (orderby = "NULL" => job.ckey)

\* a run on one database with any options and any rows the enumeration can
\* select; --table selects one relation; no other session
InitJobs ==
    /\ serverDefault = 0
    /\ canTerminate = TRUE
    /\ resid = [t \in 1..MaxTables |-> {}]
    /\ orderby \in Orderbys
    /\ table \in BOOLEAN
    /\ nrows \in 0..(IF table THEN 1 ELSE MaxTables)
    /\ jobs \in {j \in [1..nrows -> JobKinds] : \A k \in 1..nrows : Selected(j[k])}
    /\ tbl = SetToBag({<<1, 0>>})
    /\ alldb = FALSE
    /\ dbs = <<Installed>>
    /\ InitClient

NextJobs ==
    \/ repack_one_database
    \/ TableNoPkey
    \/ TableNoCkey
    \/ repack_one_table
    \/ LeStart
    \/ LeBegin
    \/ LeCheck
    \/ LeSetTimeout
    \/ LeLockOk
    \/ LeReset

SpecJobs == InitJobs /\ [][NextJobs]_vars

\* a run on one table where a session may hold a conflicting lock when
\* lock_exclusive is called, which it gives up only when canceled (if it
\* runs a statement) or terminated; the server can terminate backends
InitBlocked ==
    /\ serverDefault = 0
    /\ canTerminate = TRUE
    /\ resid = [t \in 1..MaxTables |-> {}]
    /\ nrows = 1
    /\ orderby = ""
    /\ table = FALSE
    /\ jobs = [k \in 1..nrows |-> GoodJob]
    /\ tbl = SetToBag({<<1, 0>>})
    /\ alldb = FALSE
    /\ dbs = <<Installed>>
    /\ InitClient

\* the steps of the client in lock_exclusive and out of it
Client ==
    \/ repack_one_database
    \/ repack_one_table
    \/ lock_exclusive
    \/ LeRollbackOn

BlockedHolds == \E b \in Blockers : BlockerHolds(b)

BlockedDies == \E b \in Blockers : BlockerDies(b)

NextBlocked ==
    \/ Client
    \/ Tick
    \/ BlockedHolds
    \/ BlockedDies

\* the client keeps running, time passes while it waits in lock_exclusive,
\* and a session that was signalled ends
SpecBlocked ==
    /\ InitBlocked
    /\ [][NextBlocked]_vars
    /\ WF_vars(Client)
    /\ WF_vars(Tick)
    /\ WF_vars(BlockedDies)

\* the first writer's transaction ends
WriterEnds == WCommit(1) \/ WAbort(1)

\* the first writer alone
WriterAlone == WBegin(1) \/ WWrite(1) \/ WriterEnds

NextDrain ==
    \/ Client
    \/ WriterAlone

\* the run with a writer that begins at most MaxXid transactions, each of
\* which ends; the client keeps running
SpecDrain ==
    /\ InitData
    /\ [][NextDrain]_vars
    /\ WF_vars(Client)
    /\ WF_vars(WriterEnds)

(***************************************************************************)
(* The properties of the run with concurrent writers (SpecData).           *)
(***************************************************************************)

\* the swap has run for the current target (pending until its COMMIT)
SwapRun == swapped # "no"

\* C1: no committed change of the target is lost.  Once repack_swap has
\* run, every writer transaction that committed a change was either
\* visible to the snapshot create_table read or had its log rows applied to
\* the shadow table before the swap; every committed row of the target is a
\* row of the shadow table, and a key the writers left without a row has
\* none in it.
NoCommittedChangeLost ==
    SwapRun =>
        /\ committed \subseteq copiedTx \cup appliedTx
        /\ \A r \in DOMAIN tbl : r \in DOMAIN shadow /\ shadow[r] >= tbl[r]
        /\ \A k \in Keys : RowsOfKey(tbl, k) = {} => RowsOfKey(shadow, k) = {}

\* a run that was swapped after one writer committed before the copy's
\* snapshot and another had its change carried over from the log
ChangeCopiedAndChangeApplied ==
    /\ swapped = "yes"
    /\ copiedTx \ {0} # {}
    /\ appliedTx # {}

\* C2: no committed change is applied twice.  No writer transaction is both
\* visible to the copy and applied from the log, at any time; once
\* repack_swap has run, the shadow table is the committed target row for
\* row, with at most one row for a key.
NoChangeAppliedTwice ==
    /\ copiedTx \cap appliedTx = {}
    /\ SwapRun =>
        /\ shadow = tbl
        /\ \A k \in Keys : Copies(shadow, RowsOfKey(shadow, k)) <= 1

\* a run that was swapped after delete_log removed the log row of a writer
\* the copy's snapshot saw, and another writer's row was applied
PurgedThenApplied ==
    /\ swapped = "yes"
    /\ purgedTx # {}
    /\ purgedTx \subseteq copiedTx
    /\ appliedTx # {}

\* C3: the final drain and the swap run in one transaction that holds the
\* exclusive lock and is committed only after the swap; when repack_swap
\* runs, and until that COMMIT, the log has no row, so none was added
\* between the final drain and the swap.
SwapUnderLock ==
    /\ pc \in {"final_apply", "swap", "commit_swap"} =>
        inTx /\ lockHeld /\ iso = "rc"
    /\ pc \in {"swap", "commit_swap"} => log = <<>>
    /\ swapped = "pending" <=> pc = "commit_swap"
    /\ swapped = "yes" => pc \notin {"final_apply", "swap", "commit_swap"}

\* repack_swap is about to run after a final drain that had rows to apply
FinalDrainApplied ==
    /\ pc = "swap"
    /\ lastApply > 0
    /\ lockHeld

(***************************************************************************)
(* The properties of the run over the tables of a database (Spec).         *)
(***************************************************************************)

\* the process has ended after a statement failed and, if the hook ran, the
\* hook's statements succeeded
FailedRun == pc = "exited" /\ status = "error" /\ tix >= 1

\* C4 as stated: after any failure in repack_one_table, before or after the
\* hook is registered, the workspace objects of the target are absent.
WorkspaceAbsentAfterFailure == FailedRun => ws = {}

\* C4: after a failure with the hook registered, the workspace objects of
\* the target are absent when the process has ended; after a failure before
\* the registration (or after the hook was popped) the workspace is what it
\* was when the run on the target began: the failed setup is rolled back,
\* objects that were there before remain.
WorkspaceAfterFailure ==
    FailedRun => IF hookAtFail THEN ws = {} ELSE ws = ws0

\* repack_swap failed with the hook registered, and the hook dropped the
\* workspace
SwapFailedAndCleaned ==
    /\ FailedRun
    /\ hookAtFail
    /\ failedAt = "swap"
    /\ stmt.kind = "cleanup_drop"
    /\ ws = {}

\* the positions of a run up to create_pktype, and the end of the process
UpToCreatePktype ==
    LePcs \cup {"le_start", "le_reset", "conflicted_triggers", "create_pktype",
                "exited"}

\* C5 as stated: the workspace objects a killed run left are dropped by the
\* new run before it builds its own, so that create_pktype finds none.
LeftoverDroppedBeforeBuild ==
    (tix >= 1 /\ ws0 # {} /\ pc = "create_pktype") => wsCur = {}

\* C5: a run on a target whose workspace objects a killed run left drops
\* nothing: it does not get past create_pktype, which fails on the existing
\* type, the hook is never registered, the objects stay as they were and
\* the process ends with an error.
LeftoverStopsRun ==
    (tix >= 1 /\ ws0 # {}) =>
        /\ pc \in UpToCreatePktype
        /\ ~hook
        /\ ws = ws0
        /\ swapped = "no"
        /\ pc = "exited" => status = "error"

\* create_pktype failed on the type a killed run left
LeftoverMadeCreatePktypeFail ==
    /\ pc = "exited"
    /\ failedAt = "create_pktype"
    /\ "pktype" \in ws0
    /\ ws = ws0

\* lock_exclusive has just returned to its caller
LockReturned == pc \in {"conflicted_triggers", "final_apply"}

\* C6: lock_exclusive returns only with a READ COMMITTED transaction open
\* that holds the lock on the target, after one ROLLBACK for each attempt
\* that failed, and with the attempt's statement timeout no longer in
\* force.
LockHeldOnReturn ==
    /\ pc = "le_reset" => inTx /\ iso = "rc" /\ lockHeld /\ lockRes = "ok"
    /\ LockReturned =>
        /\ inTx /\ iso = "rc" /\ lockHeld /\ lockRes = "ok"
        /\ nRollback = i - 1
        /\ ~gucTxLocal.on
        /\ EffectiveTimeout = serverDefault

\* lock_exclusive returned after attempts that were canceled
ReturnedAfterRetries ==
    /\ LockReturned
    /\ nRollback >= 2
    /\ lockHeld

\* the positions of an attempt after the cancel/terminate decision
AfterCheck == {"le_set_timeout", "le_lock", "le_rollback", "le_reset"}

\* C7: in an attempt, nothing is sent against the other sessions while the
\* elapsed time is at most wait_timeout; pg_terminate_backend is sent
\* exactly when it is above twice wait_timeout and the server has it;
\* pg_cancel_backend exactly when it is above wait_timeout otherwise; one
\* of them at most, after BEGIN, and the sessions it aims at are others
\* than the client's.
CancelTerminateThresholds ==
    pc \in AfterCheck =>
        /\ duration <= WaitTimeout => kill = "none"
        /\ kill = "terminate" <=> (canTerminate /\ duration > 2 * WaitTimeout)
        /\ kill = "cancel" <=>
              /\ duration > WaitTimeout
              /\ ~(canTerminate /\ duration > 2 * WaitTimeout)
        /\ kill \in {"none", "cancel", "terminate"}
        /\ victims \subseteq Blockers
        /\ pc = "le_set_timeout" =>
              stmt.kind = (IF kill = "none" THEN "begin" ELSE kill)

\* above twice wait_timeout on a server without pg_terminate_backend:
\* pg_cancel_backend was sent
CancelAboveTwiceTimeout ==
    /\ pc = "le_set_timeout"
    /\ ~canTerminate
    /\ duration > 2 * WaitTimeout
    /\ kill = "cancel"
    /\ victims # {}

ExitPcs ==
    {"exited", "cl_rollback", "cl_reconnect", "cl_drop", "cl_exit", "cl_fatal",
     "cl_abort"}

\* C8: a lock statement that fails with 57014 is followed by ROLLBACK and
\* the next attempt, whatever the number of attempts so far; one that fails
\* with another error ends the process with a status other than success,
\* and no attempt follows it.
RetryOnlyOnCancel ==
    [][/\ (pc = "le_lock" /\ pc' # pc) =>
            \/ lockRes' = "ok" /\ pc' = "le_reset"
            \/ lockRes' = "canceled" /\ pc' = "le_rollback"
            \/ lockRes' = "error" /\ pc' \in ExitPcs
       /\ (pc = "le_rollback" /\ pc' # pc) =>
            \/ /\ pc' = "le_begin"
               /\ i' = i + 1
               /\ stmt'.kind = "rollback"
               /\ ~inTx' /\ ~lockHeld'
            \/ failedAt' = "le_rollback" /\ pc' \in ExitPcs
       /\ lockRes = "error" =>
            /\ lockRes' = "error"
            /\ i' = i
            /\ pc' \in ExitPcs
       /\ (lockRes' = "error" /\ pc' = "exited") => status' \in {"error", "fatal"}
      ]_vars

\* the third attempt begins after two attempts were canceled
ThirdAttempt ==
    /\ pc = "le_begin"
    /\ lockRes = "canceled"
    /\ i >= 3
    /\ stmt.kind = "rollback"

KillKinds == {"cancel", "terminate"}
CleanupKinds == {"cleanup_rollback", "cleanup_drop"}

\* C9 as stated: the cancel/terminate query and the statements of the
\* cleanup are sent on a secondary session, outside any transaction of the
\* primary session.
SentOnSecondarySession ==
    stmt.kind \in KillKinds \cup CleanupKinds =>
        stmt.sess = "secondary" /\ ~stmt.tx

\* C9: the client has one session.  The cancel/terminate query is sent on
\* it inside the transaction the attempt has begun; the statements of the
\* cleanup are sent on it too, ROLLBACK first, so that repack_drop runs
\* outside any transaction.
SentOnTheOneSession ==
    /\ stmt.sess = "primary"
    /\ stmt.kind \in KillKinds => stmt.tx
    /\ stmt.kind = "cleanup_drop" => ~stmt.tx

\* pg_terminate_backend was sent inside the attempt's transaction
TerminateSentInTransaction ==
    /\ stmt.kind = "terminate"
    /\ stmt.sess = "primary"
    /\ stmt.tx
    /\ pc = "le_set_timeout"

\* C10: create_table runs with a statement_timeout of 0, whatever the
\* server's default.
CopyWithoutTimeout == pc = "create_table" => EffectiveTimeout = 0

\* C11: repack_cleanup called with fatal set sends no statement and does
\* not reconnect: the last statement sent, the connection, the session's
\* transaction and the workspace are what they were before the call.
FatalTouchesNothing ==
    [][pc = "cl_fatal" =>
          /\ stmt' = stmt
          /\ conn' = conn
          /\ UNCHANGED <<inTx, iso, lockHeld, gucSess, gucTxSet, gucTxLocal>>
          /\ UNCHANGED <<ws, wsCur, swapped>>
      ]_vars

\* the banner is printed and the workspace is still there
BannerAndWorkspaceLeft ==
    /\ pc = "cl_abort"
    /\ banner
    /\ ws # {}
    /\ stmt.kind \in CleanupKinds

\* C12 as stated: after the connection is lost with the hook registered,
\* the hook reconnects and drops the workspace, the ROLLBACK it sends first
\* notwithstanding.
ConnLossCleanedUp ==
    (lost /\ hookAtFail /\ pc = "exited") => (conn = "ok" /\ ws = {})

(***************************************************************************)
(* The properties of the run over the databases of a server (SpecAll).     *)
(***************************************************************************)

\* the library or the extension of database d is of another version
Mismatched(d) == d.probe = "ok" /\ (d.lib # Program \/ d.sql # Program)

\* the version found that differs, the library's first
FoundVersion(d) == IF d.lib # Program THEN d.lib ELSE d.sql

\* C13: on a database whose library or extension version differs from the
\* client's, repack_one_database returns false with a reason that names the
\* client's version and the version found, and the probe is the last
\* statement sent to that database: the connection is closed with no SET,
\* no enumeration, no lock and no DDL.
VersionGate ==
    /\ \A k \in 1..Len(report) :
          Mismatched(dbs[report[k].db]) =>
              /\ ~report[k].ret
              /\ report[k].reason.program = Program
              /\ report[k].reason.found = FoundVersion(dbs[report[k].db])
              /\ report[k].reason.found # report[k].reason.program
    /\ (dbix >= 1 /\ Mismatched(dbs[dbix]) /\ pc \notin {"reconnect", "probe"}) =>
          /\ pc \in {"db_loop", "exited"}
          /\ Len(report) = dbix
          /\ stmt.kind = "probe"
          /\ conn = "none"
          /\ ~inTx /\ ~lockHeld /\ wsCur = {}

\* a database was left after the probe because of its extension's version
ExtensionMismatchReported ==
    /\ pc = "db_loop"
    /\ dbix >= 1
    /\ Len(report) = dbix
    /\ report[dbix].reason = ExtensionMismatch(Older)
    /\ stmt.kind = "probe"

\* the schema repack does not exist in database d
NotInstalledIn(d) ==
    \/ d.probe = "3F000"
    \/ d.probe = "ok" /\ ~Mismatched(d) /\ d.enum = "3F000"

BuildPcs ==
    {"atexit_push", "begin_serializable", "set_work_mem", "set_seqscans",
     "xid_snapshot", "delete_log", "create_table", "drop_columns",
     "disable_autovacuum_table", "commit_copy", "index_query", "index_loop",
     "drain_apply", "xid_alive"}

\* C15: from the COMMIT that ends the setup until the second call of
\* lock_exclusive the primary session holds no lock of its own LOCK TABLE
\* on the target at all (so none for longer than wait_timeout): the lock of
\* the setup is held up to the setup's COMMIT and released by it, and it is
\* not held during the copy, the index builds or the drain, nor while the
\* second lock_exclusive is still waiting for the lock.
LockDiscipline ==
    /\ pc = "commit_setup" => lockHeld
    /\ pc \in BuildPcs => ~lockHeld
    /\ (leRet = "swap" /\ pc \in {"le_start", "le_begin", "le_check", "le_set_timeout", "le_lock", "le_rollback"}) =>
          ~lockHeld

\* a transaction that began after the copy's transaction list was taken
\* has written the target while the client builds indexes or drains
WrittenDuringBuild ==
    /\ pc \in {"index_loop", "drain_apply", "xid_alive"}
    /\ ~lockHeld
    /\ \E w \in Writers : wst[w] = "wrote" /\ wtx[w] \notin vxid

(***************************************************************************)
(* The checks of the table loop (SpecJobs).                                *)
(***************************************************************************)

\* row k of the enumeration must not be processed
BadJob(k) == jobs[k].pkid = 0 \/ (orderby = "NULL" /\ ~jobs[k].ckey)

\* C16: repack_one_table is never called for a row whose pkid is 0 nor, in
\* CLUSTER mode (orderby not given), for one whose ckey is null: for such a
\* row the table loop ends the process with an error about that row, and
\* the last statement sent is the enumeration or belongs to the row before:
\* no lock, no DDL, no open transaction and no hook for that row.
BadJobNeverProcessed ==
    (tix >= 1 /\ BadJob(tix)) =>
        /\ pc = "exited"
        /\ status = "error"
        /\ failedAt = (IF jobs[tix].pkid = 0 THEN "no_primary_key" ELSE "no_cluster_key")
        /\ stmt.kind \in {"enumerate", "commit"}
        /\ stmt.kind = "enumerate" <=> tix = 1
        /\ ~inTx /\ ~lockHeld /\ ~hook /\ ~hookAtFail
        /\ ws = {} /\ wsCur = {}

\* --table names a relation with a primary key and no clustered index and
\* no order is given: the process ended right after the enumeration
NoClusterKeyStopped ==
    /\ pc = "exited"
    /\ table
    /\ orderby = "NULL"
    /\ tix = 1
    /\ jobs[1] = [pkid |-> 1, ckey |-> FALSE]
    /\ failedAt = "no_cluster_key"
    /\ stmt.kind = "enumerate"

(***************************************************************************)
(* lock_exclusive against a session that keeps its lock (SpecBlocked).     *)
(***************************************************************************)

\* C17: when a session holds a conflicting lock and keeps it unless it is
\* canceled or terminated, and the server can terminate backends, a
\* lock_exclusive that finds the lock taken eventually holds the lock, and
\* the run eventually ends with success.
BlockerEscalation ==
    /\ (pc = "le_lock" /\ OtherHolders # {}) ~> (pc = "le_reset" /\ lockHeld)
    /\ <>(pc = "exited" /\ status = "ok")

\* the lock was got after ROLLBACKs, more than twice wait_timeout after the
\* start, in an attempt that sent the terminate query
LockAfterTerminate ==
    /\ pc = "le_reset"
    /\ leRet = "setup"
    /\ lockHeld
    /\ nRollback >= 1
    /\ duration > WaitTimeout * 2
    /\ kill = "terminate"
    /\ \A b \in Blockers : blk[b] = "none"

(***************************************************************************)
(* The drain loop (SpecDrain).                                             *)
(***************************************************************************)

DrainPcs == {"drain_apply", "xid_alive"}

\* C18: when the writers stop and every transaction ends, a drain loop that
\* was entered is eventually left for the swap's lock_exclusive; and the
\* loop is left only by its break, taken when apply_log has returned 0 and
\* the query finds no transaction of vxid alive.
DrainTerminates ==
    /\ (pc = "drain_apply") ~> (pc = "le_start" /\ leRet = "swap")
    /\ [][(pc \in DrainPcs /\ pc' \notin DrainPcs) =>
            /\ pc = "xid_alive"
            /\ pc' = "le_start"
            /\ leRet' = "swap"
            /\ lastApply = 0
            /\ vxid \cap RunningTx = {}]_vars

\* the loop goes round because a transaction of vxid is still alive though
\* the log is empty
DrainWaitsForTransaction ==
    /\ pc = "drain_apply"
    /\ stmt.kind = "xid_alive"
    /\ lastApply = 0
    /\ vxid \cap RunningTx # {}

\* the break of the drain loop
DrainExit == pc = "xid_alive" /\ pc' = "le_start"

\* C19 as stated: at the break of the drain loop the log has no row left to
\* apply and no transaction of vxid is alive, both at that moment.
DrainExitBothHold ==
    [][DrainExit => (Len(Peek(0)) = 0 /\ vxid \cap RunningTx = {})]_vars

\* C19 as amended: at the break of the drain loop the last apply_log has
\* returned 0 and the query made after it finds no transaction of vxid
\* alive; rows committed between the two are still in the log at the break,
\* and none is left when repack_swap runs, under the lock.
DrainExitConditions ==
    /\ [][DrainExit => (lastApply = 0 /\ vxid \cap RunningTx = {})]_vars
    /\ [](pc = "swap" => (lockHeld /\ Len(Peek(0)) = 0))

\* the loop is about to break though a row committed after the last
\* apply_log waits in the log
RowCommittedBeforeBreak ==
    /\ pc = "xid_alive"
    /\ lastApply = 0
    /\ vxid \cap RunningTx = {}
    /\ Len(Peek(0)) > 0

(***************************************************************************)
(* The registration of the cleanup hook.                                   *)
(***************************************************************************)

\* the steps of repack_one_table from after pgut_atexit_push to
\* pgut_atexit_pop, the second lock_exclusive included
HookPcs ==
    (BuildPcs \ {"atexit_push"}) \cup
    {"final_apply", "swap", "commit_swap", "begin_drop", "drop",
     "commit_drop", "atexit_pop"}

AllLePcs == LePcs \cup {"le_start", "le_reset"}

AnalyzePcs == {"begin_analyze", "analyze", "commit_analyze"}

\* C20: while the client runs, the hook is registered exactly from
\* pgut_atexit_push, which follows the setup's COMMIT, to pgut_atexit_pop,
\* which follows the COMMIT of repack_drop: when it is registered the
\* setup's objects are committed; when it has been removed the workspace is
\* dropped and the swap committed; it is not registered while ANALYZE runs,
\* and a run that fails in ANALYZE ends without a statement of the hook,
\* with the swap in place.
HookWindow ==
    /\ pc \notin ExitPcs =>
          (hook <=> (pc \in HookPcs \/ (pc \in AllLePcs /\ leRet = "swap")))
    /\ pc = "atexit_push" => ~inTx /\ SetupObjs \subseteq ws
    /\ pc = "begin_serializable" => SetupObjs \subseteq ws
    /\ pc = "atexit_pop" => ~inTx /\ ws = {} /\ swapped = "yes"
    /\ pc \in AnalyzePcs => ~hook /\ ws = {} /\ swapped = "yes"
    /\ (pc = "exited" /\ failedAt \in AnalyzePcs) =>
          /\ ~hookAtFail
          /\ stmt.kind = failedAt
          /\ status = "error"
          /\ ws = {}
          /\ swapped = "yes"

\* ANALYZE failed and the process ended: the workspace is dropped and the
\* swap stays
AnalyzeFailed ==
    /\ pc = "exited"
    /\ failedAt = "analyze"
    /\ ~lost
    /\ stmt.kind = "analyze"
    /\ swapped = "yes"
    /\ ws = {}

(***************************************************************************)
(* The index loop.                                                         *)
(***************************************************************************)

\* the rows among the first n of the pg_index query with indisvalid true,
\* in query order
ValidBefore(n) == SelectSeq([k \in 1..n |-> k], LAMBDA k : indexes[k])

\* C21: in the index loop the rows rebuilt so far are the valid ones among
\* those passed, in query order, so an invalid one is never rebuilt and does
\* not end the loop; the loop is left for the drain only when every row was
\* passed, else by a failure that ends the process; the drain, the second
\* lock_exclusive, the final apply_log and repack_swap are reached only one
\* from the other in that order, so repack_swap follows a complete index
\* loop; and a process that is ending never goes back to the run.
IndexRebuildOrder ==
    [][/\ pc = "index_loop" => built = ValidBefore(ix - 1)
       /\ (pc = "index_loop" /\ pc' # pc) =>
            \/ /\ pc' = "drain_apply"
               /\ ix > Len(indexes)
               /\ built = ValidBefore(Len(indexes))
            \/ /\ pc' \in ExitPcs
               /\ failedAt' = "index_loop"
               /\ built' = built
       /\ (pc' = "drain_apply" /\ pc' # pc) => pc \in {"index_loop", "xid_alive"}
       /\ (pc' = "xid_alive" /\ pc' # pc) => pc = "drain_apply"
       /\ (leRet' = "swap" /\ leRet # "swap") => pc = "xid_alive"
       /\ (pc' = "final_apply" /\ pc' # pc) => (pc = "le_reset" /\ leRet = "swap")
       /\ (pc' = "swap" /\ pc' # pc) => pc = "final_apply"
       /\ (swapped' = "pending" /\ swapped # "pending") => pc = "swap"
       /\ pc \in ExitPcs => (pc' \in ExitPcs /\ swapped' \in {swapped, "no"})
      ]_vars

\* the loop has passed an invalid index, which it skipped, and a valid one,
\* which it rebuilt
InvalidSkippedValidBuilt ==
    /\ pc = "index_loop"
    /\ ix > Len(indexes)
    /\ indexes = <<FALSE, TRUE>>
    /\ built = <<2>>
    /\ stmt.kind = "create_index"

(***************************************************************************)
(* The transactions of the client's session.                               *)
(***************************************************************************)

\* the client is about to send BEGIN
BeginPcs == {"le_begin", "begin_serializable", "begin_drop", "begin_analyze"}

\* the client is about to send COMMIT
CommitPcs ==
    {"commit_setup", "commit_copy", "commit_swap", "commit_drop", "commit_analyze"}

\* C22: while the run goes on without a failure, a BEGIN is sent only
\* outside a transaction and a COMMIT, as the ROLLBACK of a canceled lock
\* attempt, only inside one, and so were the BEGIN or COMMIT sent last;
\* lock_exclusive is called outside a transaction and repack_one_table
\* returns outside one, whatever the number of tables and of lock attempts
\* and whether ANALYZE runs.
TransactionBracketing ==
    pc \notin ExitPcs =>
        /\ pc \in BeginPcs => ~inTx
        /\ pc \in CommitPcs => inTx
        /\ pc = "le_rollback" => inTx
        /\ pc = "le_start" => ~inTx
        /\ pc = "table_loop" => ~inTx
        /\ stmt.kind = "begin" => ~stmt.tx
        /\ stmt.kind \in {"commit", "rollback"} => stmt.tx

\* the second of two tables is done, its last lock_exclusive having got
\* the lock after a canceled attempt
SecondTableDoneAfterRetry ==
    /\ pc = "table_loop"
    /\ tix = 2
    /\ ntab = 2
    /\ swapped = "yes"
    /\ nRollback >= 1
    /\ stmt.kind = "commit"
    /\ stmt.tx
    /\ ~inTx

============================================================================
